---- MODULE Spec2Model ----
(***************************************************************************)
(* Style-compilation engine of maplibre-dark-gray-places.                  *)
(*                                                                         *)
(* Two specifications share this module:                                   *)
(*   Spec      the composition engine: a Theme is turned into the ordered  *)
(*             layer list and the sources map (createAllLayers,            *)
(*             createBasemapSources, createBasemapStyle, and the single    *)
(*             layer factories);                                           *)
(*   SpecExpr  the expression builders: zoom-stop interpolation, road      *)
(*             widths (fixed and real-world scale), colour resolution.     *)
(*                                                                         *)
(* Encoding.  An optional boolean of the Theme is one of "true", "false",  *)
(* "undefined" (the field, or the sub-config that holds it, is absent).    *)
(* Any other optional value is Undefined or Some(v).  Widths are counted   *)
(* in hundredths (0.5 is 50, 1 is 100).                                    *)
(***************************************************************************)
EXTENDS Integers, Sequences, FiniteSets, TLC

VARIABLES
    theme,      \* Spec: the Theme's toggles, a function Flags -> TriState
    pc,         \* Spec: "themed" | "built" | "called"
    style,      \* Spec: the style document: [sources, layers]
    out,        \* Spec: result of a single factory call: [factory, layers]
    cfg,        \* SpecExpr: the widths / colours / settings part of the Theme
    epc,        \* SpecExpr: "themed" | "done"
    expr,       \* SpecExpr: the expression a builder returned: [fn, ...]
    attributeCache, \* SpecCache, SpecMap: the padded state codes with cached data
    loads,      \* the calls of loadPlacesAttributesByState: [statefp, owner, at]
    fetched,    \* successful fetches per padded state code since the last clear
    map,        \* SpecMap: the MapLibre map: style, sources, layers, listeners
    init        \* SpecMap: the call of initializePlacesInteractivity

styleVars == <<theme, pc, style, out, cfg, epc, expr>>

placesVars == <<attributeCache, loads, fetched, map, init>>

vars == <<theme, pc, style, out, cfg, epc, expr, attributeCache, loads, fetched, map, init>>

\* ------------------------------------------------------------------------
\* Bounds
\* ------------------------------------------------------------------------
\* A theme of Spec differs from one of the base themes in at most this many flags.
MaxOverrides == 1
\* A ZoomWidths input of SpecExpr has at most this many entries.
MaxEntries == 2
\* A stops array given to normalizeStops has at most this many elements.
MaxArrayLen == 3
\* realWorldScaleMinZoom ranges over 12..MaxThresholdZoom.
MaxThresholdZoom == 17
\* Largest number of density colour ranges of a theme
MaxRanges == 2

\* Largest number of loadPlacesAttributesByState calls of a behaviour
MaxLoads == 3
\* Longest state list handed to loadPlacesAttributesByStates
MaxStates == 2
\* Largest number of direct updateMapFeatureStates calls of a behaviour
MaxUpdates == 1

\* ------------------------------------------------------------------------
\* Optional values
\* ------------------------------------------------------------------------
TriState == {"true", "false", "undefined"}

\* JS truthiness of an optional boolean: `if (x)`, `!x`
Truthy(v) == v = "true"
\* `x !== false`
NotFalse(v) == v # "false"

IfSeq(cond, s) == IF cond THEN s ELSE <<>>

RECURSIVE Reverse(_)
Reverse(s) == IF s = <<>> THEN <<>> ELSE Reverse(Tail(s)) \o <<Head(s)>>

\* ------------------------------------------------------------------------
\* Theme toggles
\* ------------------------------------------------------------------------
DomainFlags ==
    { "hillshade.enabled", "bathymetry.enabled", "contours.enabled", "ice.enabled",
      "grid.enabled", "aeroway.enabled", "places.enabled", "pois.enabled",
      "shields.enabled" }

ShieldTypes == {"interstate", "usHighway", "stateHighway"}
POITypes == {"airport", "airfield", "hospital", "museum", "zoo", "stadium", "park",
             "rail", "school"}

Flags ==
    DomainFlags
    \cup {"shields." \o k \o ".enabled" : k \in ShieldTypes}
    \cup {"pois." \o k \o ".enabled" : k \in POITypes}
    \cup { "boundary.country", "boundary.maritime", "boundary.state",
           "boundary.hideOverWater", "buildings.enabled", "ice.iceEdge.enabled",
           "grid.latitude", "grid.latitude.label.enabled",
           "grid.longitude", "grid.longitude.label.enabled",
           "places.pointsEnabled", "places.polygonsEnabled" }

\* The toggles of myCustomMapFixedTheme
myCustomMapFixedTheme ==
    [f \in Flags |->
        CASE f \in {"contours.enabled", "ice.enabled", "grid.enabled", "aeroway.enabled",
                    "ice.iceEdge.enabled", "boundary.maritime",
                    "grid.latitude.label.enabled", "grid.longitude.label.enabled"}
                -> "false"
          [] OTHER -> "true"]

\* A Theme that leaves every optional sub-config out
MinimalTheme == [f \in Flags |-> "undefined"]

\* A Theme that switches everything on
FullTheme == [f \in Flags |-> "true"]

BaseThemes == {myCustomMapFixedTheme, MinimalTheme, FullTheme}

RECURSIVE ThemesWithin(_, _)
ThemesWithin(base, n) ==
    IF n = 0 THEN {base}
    ELSE LET prev == ThemesWithin(base, n - 1) IN
         prev \cup {[t EXCEPT ![f] = v] : t \in prev, f \in Flags, v \in TriState}

Themes == UNION {ThemesWithin(b, MaxOverrides) : b \in BaseThemes}

\* ------------------------------------------------------------------------
\* Layer descriptors: the fields of a LayerSpecification the composition
\* engine's contracts read, plus the factory that emitted the layer.
\* ------------------------------------------------------------------------
Layer(id, source, sourceLayer, factory) ==
    [id |-> id, source |-> source, sourceLayer |-> sourceLayer, factory |-> factory]

NoSource == ""

createBackgroundLayers(t) ==
    << Layer("background", NoSource, NoSource, "background") >>

createHillshadeLayers(t) ==
    IF ~Truthy(t["hillshade.enabled"]) THEN <<>>
    ELSE << Layer("hillshade", "world-hillshade", NoSource, "hillshade") >>

createLandcoverLayers(t) ==
    << Layer("landcover-world", "world_low", "landcover", "landcover"),
       Layer("landcover-world-mid", "world_mid", "landcover", "landcover"),
       Layer("landuse-world", "world_low", "landuse", "landcover"),
       Layer("landuse-world-mid", "world_mid", "landuse", "landcover") >>

createUSLandLayers(t) ==
    << Layer("landcover-us", "us_high", "landcover", "land-overlay-region"),
       Layer("landuse-us", "us_high", "landuse", "land-overlay-region") >>

createBoundaryLayers(t) ==
    IfSeq(NotFalse(t["boundary.country"]),
          << Layer("boundary-country-world", "world_low", "boundary", "boundary-world"),
             Layer("boundary-country-world-mid", "world_mid", "boundary", "boundary-world") >>)
    \o IfSeq(NotFalse(t["boundary.maritime"]),
          << Layer("boundary-maritime-world", "world_low", "boundary", "boundary-world"),
             Layer("boundary-maritime-world-mid", "world_mid", "boundary", "boundary-world") >>)
    \o IfSeq(NotFalse(t["boundary.state"]),
          << Layer("boundary-state-world", "world_low", "boundary", "boundary-world"),
             Layer("boundary-state-world-mid", "world_mid", "boundary", "boundary-world") >>)

createUSBoundaryLayers(t) ==
    IfSeq(NotFalse(t["boundary.country"]),
          << Layer("boundary-country-us", "us_high", "boundary", "boundary-region") >>)
    \o IfSeq(NotFalse(t["boundary.maritime"]),
          << Layer("boundary-maritime-us", "us_high", "boundary", "boundary-region") >>)
    \o IfSeq(NotFalse(t["boundary.state"]),
          << Layer("boundary-state-us", "us_high", "boundary", "boundary-region") >>)

createWaterLayers(t) ==
    << Layer("water-world", "world_low", "water", "water-world"),
       Layer("water-world-mid", "world_mid", "water", "water-world"),
       Layer("waterway-world", "world_low", "waterway", "water-world"),
       Layer("waterway-world-mid", "world_mid", "waterway", "water-world") >>

createUSWaterLayers(t) ==
    << Layer("water-us", "us_high", "water", "water-region"),
       Layer("waterway-us", "us_high", "waterway", "water-region") >>

\* All 12 source-layers from the PMTiles metadata
bathymetrySourceLayers ==
    << "ne_10m_bathymetry_A_10000", "ne_10m_bathymetry_B_9000",
       "ne_10m_bathymetry_C_8000", "ne_10m_bathymetry_D_7000",
       "ne_10m_bathymetry_E_6000", "ne_10m_bathymetry_F_5000",
       "ne_10m_bathymetry_G_4000", "ne_10m_bathymetry_H_3000",
       "ne_10m_bathymetry_I_2000", "ne_10m_bathymetry_J_1000",
       "ne_10m_bathymetry_K_200", "ne_10m_bathymetry_L_0" >>

\* Depth in metres of each bathymetry source-layer
sourceLayerDepths ==
    [l \in {bathymetrySourceLayers[i] : i \in DOMAIN bathymetrySourceLayers} |->
        CASE l = "ne_10m_bathymetry_A_10000" -> 10000
          [] l = "ne_10m_bathymetry_B_9000" -> 9000
          [] l = "ne_10m_bathymetry_C_8000" -> 8000
          [] l = "ne_10m_bathymetry_D_7000" -> 7000
          [] l = "ne_10m_bathymetry_E_6000" -> 6000
          [] l = "ne_10m_bathymetry_F_5000" -> 5000
          [] l = "ne_10m_bathymetry_G_4000" -> 4000
          [] l = "ne_10m_bathymetry_H_3000" -> 3000
          [] l = "ne_10m_bathymetry_I_2000" -> 2000
          [] l = "ne_10m_bathymetry_J_1000" -> 1000
          [] l = "ne_10m_bathymetry_K_200" -> 200
          [] l = "ne_10m_bathymetry_L_0" -> 0]

createBathymetryLayers(t) ==
    IF ~Truthy(t["bathymetry.enabled"]) THEN <<>>
    ELSE LET reversedSourceLayers == Reverse(bathymetrySourceLayers) IN
         [i \in 1..Len(reversedSourceLayers) |->
            Layer("bathymetry-fill-" \o reversedSourceLayers[i], "ne-bathy",
                  reversedSourceLayers[i], "bathymetry")]

createContourLayers(t) ==
    IF ~Truthy(t["contours.enabled"]) THEN <<>>
    ELSE << Layer("contour-major", "world-contours", "major", "contours"),
            Layer("contour-minor", "world-contours", "minor", "contours") >>

createIceLayers(t) ==
    IF ~Truthy(t["ice.enabled"]) THEN <<>>
    ELSE << Layer("ice-glaciated", "ne-ice", "glaciated", "ice"),
            Layer("ice-glaciated-outline", "ne-ice", "glaciated", "ice"),
            Layer("ice-shelves", "ne-ice", "ice_shelves", "ice"),
            Layer("ice-shelves-outline", "ne-ice", "ice_shelves", "ice") >>
         \o (IF NotFalse(t["ice.iceEdge.enabled"])
             THEN << Layer("ice-edge", "ne-ice", "ice_edge", "ice") >>
             ELSE << Layer("ice-edge-hidden", "ne-ice", "ice_edge", "ice") >>)

\* createGridLineLayers(kind, config, defaultColor), nested in createGridLayers
createGridLineLayers(t, kind) ==
    LET key == IF kind = "parallel" THEN "grid.latitude" ELSE "grid.longitude"
        layerId == IF kind = "parallel" THEN "grid-latitude" ELSE "grid-longitude"
        labelLayerId == IF kind = "parallel" THEN "grid-latitude-label"
                        ELSE "grid-longitude-label"
    IN  IF ~Truthy(t[key]) THEN <<>>
        ELSE << Layer(layerId, "world-grid", "graticules", "grid") >>
             \o IfSeq(Truthy(t[key \o ".label.enabled"]),
                      << Layer(labelLayerId, "world-grid", "graticules", "grid") >>)

createGridLayers(t) ==
    IF ~Truthy(t["grid.enabled"]) THEN <<>>
    ELSE createGridLineLayers(t, "parallel") \o createGridLineLayers(t, "meridian")

createWorldRoadLayers(t) ==
    << Layer("road-world", "world_low", "transportation", "roads-world"),
       Layer("road-world-mid", "world_mid", "transportation", "roads-world") >>

\* Variant: only the region building layer honours the flag
createBuildingLayer_OverlayAlways(t, id, factory) ==
    IF t["buildings.enabled"] = "false" /\ id = "building" THEN <<>>
    ELSE << Layer(id, "us_high", "building", factory) >>

\* createBuildingLayer(id, minzoom), nested in the two US road factories:
\* null when buildings are disabled
createBuildingLayer(t, id, factory) ==
    IF t["buildings.enabled"] = "false" THEN <<>>
    ELSE << Layer(id, "us_high", "building", factory) >>

createUSRoadLayers(t) ==
    << Layer("road-tunnel-casing", "us_high", "transportation", "roads-region"),
       Layer("road-tunnel", "us_high", "transportation", "roads-region"),
       Layer("road-casing", "us_high", "transportation", "roads-region"),
       Layer("paths", "us_high", "transportation", "roads-region"),
       Layer("road-bridge", "us_high", "transportation", "roads-region"),
       Layer("railway", "us_high", "transportation", "roads-region") >>
    \o createBuildingLayer(t, "building", "roads-region")

\* Variant: the overlay bridge layer reuses the id of the region bridge layer
createUSOverlayRoadLayers_BridgeIdReused(t) ==
    createBuildingLayer(t, "building-us", "roads-overlay-region")
    \o << Layer("road-casing-us", "us_high", "transportation", "roads-overlay-region"),
          Layer("road-us", "us_high", "transportation", "roads-overlay-region"),
          Layer("road-alley", "us_high", "transportation", "roads-overlay-region"),
          Layer("road-parking-aisle", "us_high", "transportation", "roads-overlay-region"),
          Layer("road-other", "us_high", "transportation", "roads-overlay-region"),
          Layer("road-bridge", "us_high", "transportation", "roads-overlay-region") >>

\* Variant: the overlay bridge layer comes before the catch-all road layer
createUSOverlayRoadLayers_BridgeBeforeOther(t) ==
    createBuildingLayer(t, "building-us", "roads-overlay-region")
    \o << Layer("road-casing-us", "us_high", "transportation", "roads-overlay-region"),
          Layer("road-us", "us_high", "transportation", "roads-overlay-region"),
          Layer("road-alley", "us_high", "transportation", "roads-overlay-region"),
          Layer("road-parking-aisle", "us_high", "transportation", "roads-overlay-region"),
          Layer("road-bridge-us", "us_high", "transportation", "roads-overlay-region"),
          Layer("road-other", "us_high", "transportation", "roads-overlay-region") >>

createUSOverlayRoadLayers(t) ==
    createBuildingLayer(t, "building-us", "roads-overlay-region")
    \o << Layer("road-casing-us", "us_high", "transportation", "roads-overlay-region"),
          Layer("road-us", "us_high", "transportation", "roads-overlay-region"),
          Layer("road-alley", "us_high", "transportation", "roads-overlay-region"),
          Layer("road-parking-aisle", "us_high", "transportation", "roads-overlay-region"),
          Layer("road-other", "us_high", "transportation", "roads-overlay-region"),
          Layer("road-bridge-us", "us_high", "transportation", "roads-overlay-region") >>

createAerowayLayers(t) ==
    IF ~Truthy(t["aeroway.enabled"]) THEN <<>>
    ELSE << Layer("aeroway-runway-major", "aeroway-world", "runway_lines", "aeroway"),
            Layer("aeroway-runway-all", "aeroway-world", "runway_lines", "aeroway"),
            Layer("aeroway-apron-fill", "aeroway-world", "apron_polys", "aeroway"),
            Layer("aeroway-apron-outline", "aeroway-world", "apron_polys", "aeroway"),
            Layer("aeroway-taxiway", "aeroway-world", "taxiway_lines", "aeroway"),
            Layer("aeroway-helipad-fill", "aeroway-world", "helipad_points", "aeroway"),
            Layer("aeroway-label-major", "aeroway-world", "apron_polys", "aeroway"),
            Layer("aeroway-label-detailed", "aeroway-world", "apron_polys", "aeroway") >>

createRoadLabelLayers(t) ==
    << Layer("road-label-major", "us_high", "transportation_name", "road-labels"),
       Layer("road-label-secondary", "us_high", "transportation_name", "road-labels"),
       Layer("road-label-tertiary", "us_high", "transportation_name", "road-labels"),
       Layer("road-label-other", "us_high", "transportation_name", "road-labels") >>

\* `shields?.interstate || { enabled: true, ... }`, then `.enabled`
shieldConfigEnabled(t, k) ==
    IF t["shields.enabled"] = "undefined" THEN TRUE
    ELSE NotFalse(t["shields." \o k \o ".enabled"])

\* Variant: the master switch is not consulted
createHighwayShieldLayers_NoMasterSwitch(t) ==
    IfSeq(shieldConfigEnabled(t, "interstate"),
          << Layer("highway-shield-interstate", "us_high", "transportation_name",
                   "highway-shields") >>)
    \o IfSeq(shieldConfigEnabled(t, "usHighway"),
          << Layer("highway-shield-us", "us_high", "transportation_name",
                   "highway-shields") >>)
    \o IfSeq(shieldConfigEnabled(t, "stateHighway"),
          << Layer("highway-shield-state", "us_high", "transportation_name",
                   "highway-shields") >>)

createHighwayShieldLayers(t) ==
    \* `if (shields && !shields.enabled) return []`
    IF t["shields.enabled"] = "false" THEN <<>>
    ELSE IfSeq(shieldConfigEnabled(t, "interstate"),
               << Layer("highway-shield-interstate", "us_high", "transportation_name",
                        "highway-shields") >>)
         \o IfSeq(shieldConfigEnabled(t, "usHighway"),
               << Layer("highway-shield-us", "us_high", "transportation_name",
                        "highway-shields") >>)
         \o IfSeq(shieldConfigEnabled(t, "stateHighway"),
               << Layer("highway-shield-state", "us_high", "transportation_name",
                        "highway-shields") >>)

createWaterLabelLayersFromWorldLabels(t) ==
    << Layer("marine-label-world-labels-place-ocean", "world_labels", "place", "water-labels"),
       Layer("marine-label-world-labels-place", "world_labels", "place", "water-labels"),
       Layer("water-label-world-labels-watername-ocean", "world_labels", "water_name",
             "water-labels"),
       Layer("water-label-world-labels-watername", "world_labels", "water_name",
             "water-labels") >>

createWaterLabelLayersFromBasemapSources(t) ==
    << Layer("marine-label-world-watername-ocean", "world_low", "water_name_ocean", "water-labels"),
       Layer("marine-label-world-all-watername", "world_low", "water_name", "water-labels"),
       Layer("marine-label-world-watername", "world_low", "water_name", "water-labels"),
       Layer("marine-label-world", "world_low", "place", "water-labels"),
       Layer("water-label-world-major", "world_low", "water_name", "water-labels"),
       Layer("water-label-world", "world_low", "water_name", "water-labels"),
       Layer("marine-label-world-mid-watername-ocean", "world_mid", "water_name_ocean",
             "water-labels"),
       Layer("marine-label-world-mid-watername", "world_mid", "water_name", "water-labels"),
       Layer("marine-label-world-mid", "world_mid", "place", "water-labels"),
       Layer("water-label-world-mid-major", "world_mid", "water_name", "water-labels"),
       Layer("water-label-world-mid", "world_mid", "water_name", "water-labels"),
       Layer("marine-label-us-watername-ocean", "us_high", "water_name_ocean", "water-labels"),
       Layer("marine-label-us-watername", "us_high", "water_name", "water-labels"),
       Layer("marine-label-us", "us_high", "place", "water-labels"),
       Layer("water-label-us-place", "us_high", "place", "water-labels"),
       Layer("water-label-us-major", "us_high", "water_name", "water-labels"),
       Layer("water-label-us", "us_high", "water_name", "water-labels") >>

createWaterwayLabelLayers(t) ==
    << Layer("waterway-label-world", "world_low", "waterway", "waterway-labels"),
       Layer("waterway-label-world-mid", "world_mid", "waterway", "waterway-labels"),
       Layer("waterway-label-us", "us_high", "waterway", "waterway-labels") >>

createPlaceLabelLayers(t) ==
    << Layer("continent-label", "world_low", "place", "place-labels"),
       Layer("country-label-world", "world_low", "place", "place-labels"),
       Layer("country-label-world-mid", "world_mid", "place", "place-labels"),
       Layer("country-label", "us_high", "place", "place-labels"),
       Layer("state-label-us-world", "world_low", "place", "place-labels"),
       Layer("state-label-us", "us_high", "place", "place-labels"),
       Layer("city-label-world-rank1-2", "world_low", "place", "place-labels"),
       Layer("city-label-us-rank1-2", "us_high", "place", "place-labels"),
       Layer("city-label-us-all", "us_high", "place", "place-labels") >>

\* Primary POI source and fallback sources
poiSources == << "poi_us", "us_high", "world_mid", "world_low" >>
\* Park sources - only us_high has the park layer
parkSources == << "us_high" >>

\* typeConfig !== undefined && typeof typeConfig === 'object' && typeConfig.enabled !== false
isPOIEnabled(t, poiType) == t["pois." \o poiType \o ".enabled"] = "true"

POI(id, s, sourceLayer) == Layer(id \o s, s, sourceLayer, "poi-labels")

\* Body of `for (const source of sources)` in createPOILayers
poiLayersOfSource(t, s) ==
    IfSeq(isPOIEnabled(t, "airport"), << POI("poi-airport-", s, "poi") >>)
    \o IfSeq(isPOIEnabled(t, "airfield"), << POI("poi-airfield-", s, "poi") >>)
    \o IfSeq(isPOIEnabled(t, "airport"), << POI("place-airport-", s, "place") >>)
    \o IfSeq(isPOIEnabled(t, "hospital"),
             << POI("poi-hospital-rank1-", s, "poi"), POI("poi-hospital-rank2-", s, "poi"),
                POI("poi-hospital-rank3plus-", s, "poi") >>)
    \o IfSeq(isPOIEnabled(t, "museum"),
             << POI("poi-museum-rank1-", s, "poi"), POI("poi-museum-rank2-", s, "poi"),
                POI("poi-museum-rank3plus-", s, "poi") >>)
    \o IfSeq(isPOIEnabled(t, "zoo"), << POI("poi-zoo-", s, "poi") >>)
    \o IfSeq(isPOIEnabled(t, "stadium"), << POI("poi-stadium-", s, "poi") >>)
    \o IfSeq(isPOIEnabled(t, "stadium"), << POI("place-stadium-", s, "place") >>)
    \o IfSeq(isPOIEnabled(t, "park"), << POI("poi-park-", s, "poi") >>)
    \o IfSeq(isPOIEnabled(t, "rail"),
             << POI("poi-rail-rank1-", s, "poi"), POI("poi-rail-rank2-", s, "poi"),
                POI("poi-rail-rank3plus-", s, "poi") >>)
    \o IfSeq(isPOIEnabled(t, "school"),
             << POI("poi-school-rank1-", s, "poi"), POI("poi-school-rank2-", s, "poi"),
                POI("poi-school-rank3plus-", s, "poi") >>)

RECURSIVE poiLayersOfSources(_, _)
\* for (const source of sources) { ... }
poiLayersOfSources(t, ss) ==
    IF ss = <<>> THEN <<>>
    ELSE poiLayersOfSource(t, Head(ss)) \o poiLayersOfSources(t, Tail(ss))

parkLabelOfSource(t, s) == << POI("park-label-", s, "park") >>

RECURSIVE parkLabelsOfSources(_, _)
\* for (const source of parkSources) { ... }
parkLabelsOfSources(t, ss) ==
    IF ss = <<>> THEN <<>>
    ELSE parkLabelOfSource(t, Head(ss)) \o parkLabelsOfSources(t, Tail(ss))

createPOILayers(t) ==
    IF ~Truthy(t["pois.enabled"]) THEN <<>>
    ELSE poiLayersOfSources(t, poiSources)
         \o IfSeq(isPOIEnabled(t, "airport"),
                  << Layer("aerodrome-label-airport-us_high", "us_high", "aerodrome_label",
                           "poi-labels") >>)
         \o IfSeq(isPOIEnabled(t, "park"), parkLabelsOfSources(t, parkSources))

createPlacesLayers(t) ==
    IF ~Truthy(t["places.enabled"]) THEN <<>>
    ELSE IfSeq(NotFalse(t["places.pointsEnabled"]),
               << Layer("places-points-lowzoom", "places-low-source", "places", "places"),
                  Layer("places-points-lowzoom-alt1", "places-low-source", "points", "places"),
                  Layer("places-points-lowzoom-alt2", "places-low-source", "places_points",
                        "places") >>)
         \o IfSeq(NotFalse(t["places.pointsEnabled"]),
               << Layer("places-cluster-labels-lowzoom", "places-low-source", "places",
                        "places"),
                  Layer("places-cluster-labels-lowzoom-alt1", "places-low-source", "points",
                        "places"),
                  Layer("places-cluster-labels-lowzoom-alt2", "places-low-source",
                        "places_points", "places") >>)
         \o IfSeq(NotFalse(t["places.polygonsEnabled"]),
               << Layer("places-fill", "places-source", "places", "places"),
                  Layer("places-outline", "places-source", "places", "places") >>)

\* ------------------------------------------------------------------------
\* Composition engine
\* ------------------------------------------------------------------------
\* Variant: ice is emitted before contours
createAllLayers_IceBeforeContours(t) ==
    LET hideOverWater == t["boundary.hideOverWater"] = "true" IN
    createBackgroundLayers(t)
    \o createHillshadeLayers(t)
    \o createLandcoverLayers(t)
    \o (IF hideOverWater THEN createBoundaryLayers(t) ELSE <<>>)
    \o (IF hideOverWater THEN createUSBoundaryLayers(t) ELSE <<>>)
    \o createWaterLayers(t)
    \o createUSWaterLayers(t)
    \o createBathymetryLayers(t)
    \o createIceLayers(t)
    \o createContourLayers(t)
    \o (IF hideOverWater THEN <<>> ELSE createBoundaryLayers(t))
    \o createGridLayers(t)
    \o createWorldRoadLayers(t)
    \o createUSRoadLayers(t)
    \o createUSLandLayers(t)
    \o (IF hideOverWater THEN <<>> ELSE createUSBoundaryLayers(t))
    \o createUSOverlayRoadLayers(t)
    \o createAerowayLayers(t)
    \o createRoadLabelLayers(t)
    \o createHighwayShieldLayers(t)
    \o createWaterLabelLayersFromWorldLabels(t)
    \o createWaterLabelLayersFromBasemapSources(t)
    \o createWaterwayLabelLayers(t)
    \o createPlaceLabelLayers(t)
    \o createPOILayers(t)

\* Variant: boundaries always follow water, hideOverWater is not consulted
createAllLayers_BoundariesAfterWater(t) ==
    createBackgroundLayers(t)
    \o createHillshadeLayers(t)
    \o createLandcoverLayers(t)
    \o createWaterLayers(t)
    \o createUSWaterLayers(t)
    \o createBathymetryLayers(t)
    \o createContourLayers(t)
    \o createBoundaryLayers(t)
    \o createIceLayers(t)
    \o createGridLayers(t)
    \o createWorldRoadLayers(t)
    \o createUSRoadLayers(t)
    \o createUSLandLayers(t)
    \o createUSBoundaryLayers(t)
    \o createUSOverlayRoadLayers(t)
    \o createAerowayLayers(t)
    \o createRoadLabelLayers(t)
    \o createHighwayShieldLayers(t)
    \o createWaterLabelLayersFromWorldLabels(t)
    \o createWaterLabelLayersFromBasemapSources(t)
    \o createWaterwayLabelLayers(t)
    \o createPlaceLabelLayers(t)
    \o createPOILayers(t)

createAllLayers(t) ==
    LET hideOverWater == t["boundary.hideOverWater"] = "true" IN
    createBackgroundLayers(t)
    \o createHillshadeLayers(t)
    \o createLandcoverLayers(t)
    \o (IF hideOverWater THEN createBoundaryLayers(t) ELSE <<>>)
    \o (IF hideOverWater THEN createUSBoundaryLayers(t) ELSE <<>>)
    \o createWaterLayers(t)
    \o createUSWaterLayers(t)
    \o createBathymetryLayers(t)
    \o createContourLayers(t)
    \o (IF hideOverWater THEN <<>> ELSE createBoundaryLayers(t))
    \o createIceLayers(t)
    \o createGridLayers(t)
    \o createWorldRoadLayers(t)
    \o createUSRoadLayers(t)
    \o createUSLandLayers(t)
    \o (IF hideOverWater THEN <<>> ELSE createUSBoundaryLayers(t))
    \o createUSOverlayRoadLayers(t)
    \o createAerowayLayers(t)
    \o createRoadLabelLayers(t)
    \o createHighwayShieldLayers(t)
    \o createWaterLabelLayersFromWorldLabels(t)
    \o createWaterLabelLayersFromBasemapSources(t)
    \o createWaterwayLabelLayers(t)
    \o createPlaceLabelLayers(t)
    \o createPOILayers(t)

\* Keys of the global sources shared across all basemaps
createGlobalSources == {"world_labels"}

\* Variant: the bathymetry source is always declared
createBasemapSources_AlwaysBathymetry(t) ==
    {"world_low", "world_mid", "us_high", "poi_us", "ne-bathy"}
    \cup (IF Truthy(t["contours.enabled"]) THEN {"world-contours"} ELSE {})
    \cup (IF Truthy(t["ice.enabled"]) THEN {"ne-ice"} ELSE {})
    \cup (IF Truthy(t["grid.enabled"]) THEN {"world-grid"} ELSE {})
    \cup (IF Truthy(t["hillshade.enabled"]) THEN {"world-hillshade"} ELSE {})
    \cup (IF Truthy(t["aeroway.enabled"]) THEN {"aeroway-world"} ELSE {})

\* Variant: the aeroway source is declared under the hillshade flag
createBasemapSources_AerowayOnHillshade(t) ==
    {"world_low", "world_mid", "us_high", "poi_us"}
    \cup (IF Truthy(t["bathymetry.enabled"]) THEN {"ne-bathy"} ELSE {})
    \cup (IF Truthy(t["contours.enabled"]) THEN {"world-contours"} ELSE {})
    \cup (IF Truthy(t["ice.enabled"]) THEN {"ne-ice"} ELSE {})
    \cup (IF Truthy(t["grid.enabled"]) THEN {"world-grid"} ELSE {})
    \cup (IF Truthy(t["hillshade.enabled"]) THEN {"world-hillshade", "aeroway-world"} ELSE {})

\* Keys of the sources map built by createBasemapSources(config, theme)
createBasemapSources(t) ==
    {"world_low", "world_mid", "us_high", "poi_us"}
    \cup (IF Truthy(t["bathymetry.enabled"]) THEN {"ne-bathy"} ELSE {})
    \cup (IF Truthy(t["contours.enabled"]) THEN {"world-contours"} ELSE {})
    \cup (IF Truthy(t["ice.enabled"]) THEN {"ne-ice"} ELSE {})
    \cup (IF Truthy(t["grid.enabled"]) THEN {"world-grid"} ELSE {})
    \cup (IF Truthy(t["hillshade.enabled"]) THEN {"world-hillshade"} ELSE {})
    \cup (IF Truthy(t["aeroway.enabled"]) THEN {"aeroway-world"} ELSE {})

\* { ...base, sources: { ...base.sources, ...sources }, layers }
createBasemapStyle(t) ==
    [sources |-> createGlobalSources \cup createBasemapSources(t),
     layers  |-> createAllLayers(t)]

\* The layer factories of the domains that carry an `enabled` flag
FlaggedFactories ==
    { "bathymetry", "contours", "ice", "grid", "hillshade", "aeroway", "places", "pois",
      "shields" }

callFactory(d, t) ==
    CASE d = "bathymetry" -> createBathymetryLayers(t)
      [] d = "contours"   -> createContourLayers(t)
      [] d = "ice"        -> createIceLayers(t)
      [] d = "grid"       -> createGridLayers(t)
      [] d = "hillshade"  -> createHillshadeLayers(t)
      [] d = "aeroway"    -> createAerowayLayers(t)
      [] d = "places"     -> createPlacesLayers(t)
      [] d = "pois"       -> createPOILayers(t)
      [] d = "shields"    -> createHighwayShieldLayers(t)

\* ------------------------------------------------------------------------
\* Spec: a Theme is constructed, then the style is built from it, or one
\* layer factory is called on it.
\* ------------------------------------------------------------------------
NoStyle == [sources |-> {}, layers |-> <<>>]
NoOut == [factory |-> "none", layers |-> <<>>]
NoCfg == [kind |-> "none"]
NoExpr == [fn |-> "none"]

Init ==
    /\ theme \in Themes
    /\ pc = "themed"
    /\ style = NoStyle
    /\ out = NoOut
    /\ cfg = NoCfg
    /\ epc = "idle"
    /\ expr = NoExpr
    /\ attributeCache = {}
    /\ loads = <<>>
    /\ fetched = <<>>
    /\ map = [style |-> FALSE]
    /\ init = [at |-> "none"]

BuildStyle ==
    /\ pc = "themed"
    /\ style' = createBasemapStyle(theme)
    /\ pc' = "built"
    /\ UNCHANGED <<theme, out, cfg, epc, expr, placesVars>>

CallFactory(d) ==
    /\ pc = "themed"
    /\ out' = [factory |-> d, layers |-> callFactory(d, theme)]
    /\ pc' = "called"
    /\ UNCHANGED <<theme, style, cfg, epc, expr, placesVars>>

Next ==
    \/ BuildStyle
    \/ \E d \in FlaggedFactories : CallFactory(d)

Spec == Init /\ [][Next]_vars

\* ------------------------------------------------------------------------
\* Properties of the composition engine (checked under Spec)
\* ------------------------------------------------------------------------
Range(s) == {s[i] : i \in DOMAIN s}

IndexOf(layers, id) == CHOOSE i \in DOMAIN layers : layers[i].id = id

HasLayer(layers, id) == \E i \in DOMAIN layers : layers[i].id = id

\* The documented draw order of the domain groups
GroupOrder(hideOverWater) ==
    << "background", "hillshade", "landcover" >>
    \o IfSeq(hideOverWater, << "boundary-world", "boundary-region" >>)
    \o << "water-world", "water-region", "bathymetry", "contours" >>
    \o IfSeq(~hideOverWater, << "boundary-world" >>)
    \o << "ice", "grid", "roads-world", "roads-region", "land-overlay-region" >>
    \o IfSeq(~hideOverWater, << "boundary-region" >>)
    \o << "roads-overlay-region", "aeroway", "road-labels", "highway-shields",
          "water-labels", "waterway-labels", "place-labels", "poi-labels" >>

GroupRank(order, g) == CHOOSE i \in DOMAIN order : order[i] = g

\* What the factories of a group return for a theme
GroupLayers(g, t) ==
    CASE g = "background"           -> createBackgroundLayers(t)
      [] g = "hillshade"            -> createHillshadeLayers(t)
      [] g = "landcover"            -> createLandcoverLayers(t)
      [] g = "boundary-world"       -> createBoundaryLayers(t)
      [] g = "boundary-region"      -> createUSBoundaryLayers(t)
      [] g = "water-world"          -> createWaterLayers(t)
      [] g = "water-region"         -> createUSWaterLayers(t)
      [] g = "bathymetry"           -> createBathymetryLayers(t)
      [] g = "contours"             -> createContourLayers(t)
      [] g = "ice"                  -> createIceLayers(t)
      [] g = "grid"                 -> createGridLayers(t)
      [] g = "roads-world"          -> createWorldRoadLayers(t)
      [] g = "roads-region"         -> createUSRoadLayers(t)
      [] g = "land-overlay-region"  -> createUSLandLayers(t)
      [] g = "roads-overlay-region" -> createUSOverlayRoadLayers(t)
      [] g = "aeroway"              -> createAerowayLayers(t)
      [] g = "road-labels"          -> createRoadLabelLayers(t)
      [] g = "highway-shields"      -> createHighwayShieldLayers(t)
      [] g = "water-labels"         -> createWaterLabelLayersFromWorldLabels(t)
                                       \o createWaterLabelLayersFromBasemapSources(t)
      [] g = "waterway-labels"      -> createWaterwayLabelLayers(t)
      [] g = "place-labels"         -> createPlaceLabelLayers(t)
      [] g = "poi-labels"           -> createPOILayers(t)

LayersOfGroup(layers, g) == SelectSeq(layers, LAMBDA l : l.factory = g)

\* C1: the layer list of the built style is the concatenation of the domain
\* groups in the documented order: every layer belongs to a group of the
\* order, no layer of a later group precedes a layer of an earlier group, and
\* the layers of each group are exactly what that group's factory returns.
C1_LayerOrder ==
    pc = "built" =>
        LET order == GroupOrder(theme["boundary.hideOverWater"] = "true")
            layers == style.layers
        IN /\ \A i \in DOMAIN layers : layers[i].factory \in Range(order)
           /\ \A i \in 1..(Len(layers) - 1) :
                GroupRank(order, layers[i].factory) <= GroupRank(order, layers[i + 1].factory)
           /\ \A g \in Range(order) : LayersOfGroup(layers, g) = GroupLayers(g, theme)

\* A built style in which every group of the order has at least one layer
C1_Witness ==
    /\ pc = "built"
    /\ theme["boundary.hideOverWater"] # "true"
    /\ \A g \in Range(GroupOrder(FALSE)) : LayersOfGroup(style.layers, g) # <<>>

\* C2: when country boundaries are shown, "boundary-country-world" precedes
\* "water-world" if boundary.hideOverWater is true, and follows it if
\* boundary.hideOverWater is false or unset.
C2_BoundaryVsWater ==
    (pc = "built" /\ NotFalse(theme["boundary.country"])) =>
        /\ HasLayer(style.layers, "boundary-country-world")
        /\ HasLayer(style.layers, "water-world")
        /\ IF theme["boundary.hideOverWater"] = "true"
           THEN IndexOf(style.layers, "boundary-country-world")
                    < IndexOf(style.layers, "water-world")
           ELSE IndexOf(style.layers, "water-world")
                    < IndexOf(style.layers, "boundary-country-world")

\* A built style with hideOverWater on and the country boundary below water
C2_Witness ==
    /\ pc = "built"
    /\ theme["boundary.hideOverWater"] = "true"
    /\ NotFalse(theme["boundary.country"])
    /\ HasLayer(style.layers, "boundary-country-world")
    /\ IndexOf(style.layers, "boundary-country-world") < IndexOf(style.layers, "water-world")

\* C3: no two layers of the built style have the same id.
C3_UniqueIds ==
    pc = "built" =>
        \A i, j \in DOMAIN style.layers :
            style.layers[i].id = style.layers[j].id => i = j

\* A built style that carries POI layers of every source, both building
\* layers and both bridge layers
C3_Witness ==
    /\ pc = "built"
    /\ HasLayer(style.layers, "poi-airport-poi_us")
    /\ HasLayer(style.layers, "poi-airport-world_low")
    /\ HasLayer(style.layers, "building")
    /\ HasLayer(style.layers, "building-us")
    /\ HasLayer(style.layers, "road-bridge")
    /\ HasLayer(style.layers, "road-bridge-us")

\* C4: a layer factory of a domain with an enabled flag returns the empty
\* list when the theme sets that flag to false.
C4_DisableIsEmpty ==
    (pc = "called" /\ theme[out.factory \o ".enabled"] = "false") => out.layers = <<>>

\* The highway shield factory called with the master switch off and a shield
\* type switched on
C4_Witness ==
    /\ pc = "called"
    /\ out.factory = "shields"
    /\ theme["shields.enabled"] = "false"
    /\ theme["shields.interstate.enabled"] = "true"
    /\ out.layers = <<>>

\* The optional sources and the flag that declares each
OptionalSources ==
    { <<"ne-bathy", "bathymetry.enabled">>, <<"world-contours", "contours.enabled">>,
      <<"ne-ice", "ice.enabled">>, <<"world-grid", "grid.enabled">>,
      <<"world-hillshade", "hillshade.enabled">>, <<"aeroway-world", "aeroway.enabled">> }

\* C5: the sources map of the built style holds an optional source's key iff
\* the theme enables its domain (bathymetry, contours, ice, grid, hillshade,
\* aeroway), and a theme with bathymetry not enabled yields no bathymetry layer.
C5_SourceIffEnabled ==
    pc = "built" =>
        /\ \A p \in OptionalSources : (p[1] \in style.sources) <=> (theme[p[2]] = "true")
        /\ theme["bathymetry.enabled"] # "true" =>
              \A i \in DOMAIN style.layers :
                  /\ style.layers[i].source # "ne-bathy"
                  /\ style.layers[i].factory # "bathymetry"

\* A built style with bathymetry switched off and contours switched on
C5_Witness ==
    /\ pc = "built"
    /\ theme["bathymetry.enabled"] = "false"
    /\ theme["contours.enabled"] = "true"
    /\ "ne-bathy" \notin style.sources
    /\ "world-contours" \in style.sources

\* ------------------------------------------------------------------------
\* Expression builders
\*
\* An optional value is Undefined or Some(v).  A ZoomWidths object is the
\* sequence of its own entries <<key, optional number>> in insertion order,
\* keys distinct.  Widths and opacities are counted in hundredths.
\* An emitted expression is a record: [op |-> "interpolate", interp, input,
\* stops] with stops the flat array z1, v1, z2, v2, ...; [op |-> "match",
\* arms, fallback]; [op |-> "literal", value]; [op |-> "step", ...].
\* ------------------------------------------------------------------------
Undefined == <<>>

Some(v) == <<v>>

\* a ?? b
Coalesce(a, b) == IF a # Undefined THEN a ELSE b

\* obj[key] of an object held as its entry sequence
Prop(obj, key) ==
    IF \E i \in DOMAIN obj : obj[i][1] = key
    THEN obj[CHOOSE i \in DOMAIN obj : obj[i][1] = key][2]
    ELSE Undefined

\* Map zoom keys to actual zoom values
zoomMap ==
    [z0 |-> 0, z3 |-> 3, z6 |-> 6, z8 |-> 8, z10 |-> 10, z12 |-> 12, z14 |-> 14, z15 |-> 15]

ZoomKeys == DOMAIN zoomMap

RECURSIVE InsertByZoom(_, _)
\* Insert the pair p after every pair whose zoom is <= its own (stable)
InsertByZoom(p, sorted) ==
    IF sorted = <<>> THEN <<p>>
    ELSE IF Head(sorted)[1] <= p[1] THEN <<Head(sorted)>> \o InsertByZoom(p, Tail(sorted))
    ELSE <<p>> \o sorted

RECURSIVE SortByZoom(_)
\* .sort((a, b) => a[0] - b[0]) on [zoom, value] pairs
SortByZoom(pairs) ==
    IF pairs = <<>> THEN <<>>
    ELSE InsertByZoom(pairs[Len(pairs)], SortByZoom(SubSeq(pairs, 1, Len(pairs) - 1)))

RECURSIVE PushPairs(_, _)
\* for (const [zoom, width] of entries) stops.push(zoom, width)
PushPairs(stops, entries) ==
    IF entries = <<>> THEN stops
    ELSE PushPairs(stops \o <<Head(entries)[1], Head(entries)[2]>>, Tail(entries))

Interpolate(interp, input, stops) ==
    [op |-> "interpolate", interp |-> interp, input |-> input, stops |-> stops]

Literal(v) == [op |-> "literal", value |-> v]

zoomWidthExpr(widths) ==
    LET defined == SelectSeq(widths, LAMBDA e : e[2] # Undefined)
        entries == SortByZoom([i \in DOMAIN defined |->
                                  <<zoomMap[defined[i][1]], defined[i][2][1]>>])
    IN  Interpolate(<<"linear">>, "zoom", PushPairs(<<>>, entries))

\* opacity: [number |-> n] or [zoomWidths |-> object]
opacityExpr(opacity) ==
    IF "number" \in DOMAIN opacity THEN Literal(opacity.number)
    ELSE zoomWidthExpr(opacity.zoomWidths)

RoadClasses ==
    {"motorway", "trunk", "primary", "secondary", "tertiary", "residential", "service",
     "default"}

\* The arms of the road-class match expressions: <<label, class object read>>
roadClassArms ==
    << <<"motorway", "motorway">>, <<"trunk", "trunk">>, <<"primary", "primary">>,
       <<"secondary", "secondary">>, <<"tertiary", "tertiary">>,
       <<"residential", "residential">>, <<"service", "service">>,
       <<"minor", "residential">>, <<"unclassified", "residential">> >>

roadClassWidthAtZoom(widths, zoomKey) ==
    [op |-> "match",
     arms |-> [i \in DOMAIN roadClassArms |->
                 <<roadClassArms[i][1],
                   Coalesce(Prop(widths[roadClassArms[i][2]], zoomKey),
                            Prop(widths["default"], zoomKey))>>],
     fallback |-> Coalesce(Prop(widths["default"], zoomKey), Some(50))]

roadWidthExpr(widths) ==
    Interpolate(<<"linear">>, "zoom",
        << 6, roadClassWidthAtZoom(widths, "z6"),
           12, roadClassWidthAtZoom(widths, "z12"),
           15, roadClassWidthAtZoom(widths, "z15") >>)

roadWidthExprRealWorld(widths, minZoom) ==
    LET baseWidth == roadClassWidthAtZoom(widths, "z15")
        z20Multiplier == 2 ^ (20 - minZoom)
        z20Width ==
            [op |-> "match",
             arms |-> [i \in DOMAIN roadClassArms |->
                         <<roadClassArms[i][1],
                           Some(Coalesce(Coalesce(Prop(widths[roadClassArms[i][2]], "z15"),
                                                  Prop(widths["default"], "z15")),
                                         Some(100))[1] * z20Multiplier)>>],
             fallback |-> Some(Coalesce(Prop(widths["default"], "z15"), Some(100))[1]
                               * z20Multiplier)]
    IN  Interpolate(<<"exponential", 2>>, "zoom",
            << 6, roadClassWidthAtZoom(widths, "z6"),
               12, roadClassWidthAtZoom(widths, "z12"),
               minZoom, baseWidth,
               20, z20Width >>)

roadCasingWidthExpr(widths) ==
    Interpolate(<<"linear">>, "zoom",
        << 6, roadClassWidthAtZoom(widths, "z6"),
           12, roadClassWidthAtZoom(widths, "z12"),
           15, roadClassWidthAtZoom(widths, "z15") >>)

\* Road width expression chosen by the theme settings
getRoadWidthExpr(widths, settings) ==
    IF Truthy(settings.realWorldScale)
    THEN roadWidthExprRealWorld(widths, Coalesce(settings.realWorldScaleMinZoom, Some(15))[1])
    ELSE roadWidthExpr(widths)

\* Casing width: fixed scaling, the settings are not read
getRoadCasingWidthExpr(widths, settings) == roadCasingWidthExpr(widths)

\* The paint interpolations of createContourLayers: line-width and line-opacity
\* of contour-major, then of contour-minor.  Widths and opacities in thousandths.
contourPaint(contours) ==
    IF ~Truthy(contours.enabled) THEN <<>>
    ELSE
    LET majorWidth == Coalesce(contours.majorWidth, Some([min |-> 500, max |-> 1500]))[1]
        majorOpacity == Coalesce(contours.majorOpacity, Some(600))[1]
        majorMinZoom == Coalesce(Coalesce(contours.majorMinZoom, contours.minZoom), Some(6))[1]
        majorMaxZoom == Coalesce(contours.maxZoom, Some(12))[1]
        minorWidth == Coalesce(contours.minorWidth, Some([min |-> 250, max |-> 750]))[1]
        minorOpacity == Coalesce(contours.minorOpacity, Some(400))[1]
        minorMinZoom == Coalesce(Coalesce(contours.minorMinZoom, contours.minZoom), Some(8))[1]
        minorMaxZoom == Coalesce(contours.maxZoom, Some(12))[1]
    IN  << Interpolate(<<"linear">>, "zoom",
              << majorMinZoom, majorWidth.min,
                 8, (majorWidth.max * 12) \div 10,
                 9, (majorWidth.max * 13) \div 10,
                 majorMaxZoom, majorWidth.max >>),
           Interpolate(<<"linear">>, "zoom",
              << majorMinZoom, majorOpacity,
                 8, (majorOpacity * 12) \div 10,
                 9, (majorOpacity * 13) \div 10,
                 majorMaxZoom, majorOpacity,
                 majorMaxZoom + 1, 0 >>),
           Interpolate(<<"linear">>, "zoom",
              << minorMinZoom, minorWidth.min,
                 8, (minorWidth.max * 13) \div 10,
                 9, (minorWidth.max * 15) \div 10,
                 minorMaxZoom, minorWidth.max >>),
           Interpolate(<<"linear">>, "zoom",
              << minorMinZoom, minorOpacity,
                 8, (minorOpacity * 15) \div 10,
                 9, (minorOpacity * 18) \div 10,
                 minorMaxZoom, minorOpacity,
                 minorMaxZoom + 1, 0 >>) >>

\* `x && y` on an optional boolean and an optional string
OverrideOn(use, color) == Truthy(use) /\ color # Undefined /\ color # Some("")

Match(arms, fallback) == [op |-> "match", arms |-> arms, fallback |-> fallback]

landcoverFillColor(c, landConfig) ==
    IF OverrideOn(landConfig.useOverrideColor, landConfig.overrideColor)
    THEN Literal(landConfig.overrideColor)
    ELSE Match(<< <<"wood", c.land.wood>>,
                  <<"grass", c.land.grass>>,
                  <<"scrub", c.land.scrub>>,
                  <<"scrubland", c.land.scrub>>,
                  <<"cropland", c.land.cropland>>,
                  <<"farmland", Coalesce(c.land.farmland, c.land.cropland)>>,
                  <<"rock", Coalesce(c.land.rock, c.land.scrub)>>,
                  <<"sand", Coalesce(c.land.sand, c.land.default)>>,
                  <<"wetland", Coalesce(c.land.wetland, c.land.default)>> >>,
               c.land.default)

\* The classes of the landuse match, in order
landuseClasses ==
    << "park", "cemetery", "pitch", "stadium", "residential", "college", "commercial",
       "construction", "dam", "farmland", "grass", "hospital", "industrial", "military",
       "neighbourhood", "quarry", "quarter", "railway", "retail", "school", "suburb",
       "theme_park", "track", "university", "zoo" >>

\* Classes whose colour is read without a fallback
landuseMandatory == {"cemetery", "pitch", "residential"}

landuseFillColor(c, landConfig) ==
    IF OverrideOn(landConfig.useOverrideColor, landConfig.overrideColor)
    THEN Literal(landConfig.overrideColor)
    ELSE Match([i \in DOMAIN landuseClasses |->
                   LET k == landuseClasses[i] IN
                   <<k, IF k \in landuseMandatory THEN c.landuse[k]
                        ELSE Coalesce(c.landuse[k], c.landuse.default)>>],
               c.landuse.default)

waterClasses == << "ocean", "sea", "lake", "pond", "river", "reservoir", "bay", "gulf" >>

\* waterFillColor without the override check
waterFillColor_NoOverride(c, waterConfig) ==
    Match([i \in DOMAIN waterClasses |->
              <<waterClasses[i], Coalesce(c.water[waterClasses[i]], c.water.fill)>>],
          Coalesce(c.water.default, c.water.fill))

waterFillColor(c, waterConfig) ==
    IF OverrideOn(waterConfig.useOverrideColor, waterConfig.overrideColor)
    THEN Literal(waterConfig.overrideColor)
    ELSE Match([i \in DOMAIN waterClasses |->
                   <<waterClasses[i], Coalesce(c.water[waterClasses[i]], c.water.fill)>>],
               Coalesce(c.water.default, c.water.fill))

waterwayClasses == << "river", "canal", "stream", "ditch", "drain" >>

waterwayLineColor(c, waterConfig) ==
    IF OverrideOn(waterConfig.useOverrideColorWaterway, waterConfig.overrideColorWaterway)
    THEN Literal(waterConfig.overrideColorWaterway)
    ELSE Match([i \in DOMAIN waterwayClasses |->
                   <<waterwayClasses[i],
                     Coalesce(c.water[waterwayClasses[i]], c.water.line)>>],
               Coalesce(c.water.default, c.water.line))

\* Zoom of the step stop is counted in thousandths
buildingFillColor(c, heightColorsMinZoom) ==
    LET heightBasedColor ==
            Interpolate(<<"linear">>, "render_height",
                << 0, Coalesce(c.building.short, c.building.fill),
                   10, Coalesce(c.building.medium, c.building.fill),
                   50, Coalesce(c.building.tall, c.building.fill),
                   150, Coalesce(c.building.skyscraper, c.building.fill),
                   300, Coalesce(c.building.supertall, c.building.fill),
                   600, Coalesce(c.building.megatall, c.building.fill) >>)
    IN  IF heightColorsMinZoom # Undefined
        THEN [op |-> "step", input |-> "zoom",
              default |-> Coalesce(c.building.default, c.building.fill),
              stops |-> << heightColorsMinZoom[1] * 1000 - 1, heightBasedColor >>]
        ELSE heightBasedColor

\* Zoom parsed from a key of a named-stops record (tenths of a zoom level):
\* k.startsWith("z") ? k.slice(1) : k, "_" read as ".", parseFloat; NaN is Undefined
parseStopKey(k) ==
    CASE k = "z0"   -> Some(0)
      [] k = "z6_5" -> Some(65)
      [] k = "5"    -> Some(50)
      [] k = "zoom" -> Undefined

StopKeys == {"z0", "z6_5", "5", "zoom"}

\* input: [form |-> "undefined"], [form |-> "number", n], [form |-> "array", a],
\* [form |-> "record", r] with r the entry sequence of the record.
\* Zooms are counted in tenths.
normalizeStops(input, defaultStops) ==
    CASE input.form = "undefined" -> defaultStops
      [] input.form = "number" -> << 0, input.n, 240, input.n >>
      [] input.form = "array" ->
            IF Len(input.a) >= 2 /\ Len(input.a) % 2 = 0 THEN input.a ELSE defaultStops
      [] input.form = "record" ->
            LET parsed == SelectSeq(input.r, LAMBDA e : parseStopKey(e[1]) # Undefined)
                pairs == SortByZoom([i \in DOMAIN parsed |->
                                        <<parseStopKey(parsed[i][1])[1], parsed[i][2]>>])
                flat == PushPairs(<<>>, pairs)
            IN  IF Len(flat) >= 2 /\ Len(flat) % 2 = 0 THEN flat ELSE defaultStops

\* `a || b` on optional strings
OrElse(a, b) == IF a # Undefined /\ a # Some("") THEN a ELSE b

roadColorExpr(c) ==
    Match(<< <<"motorway", c.road.motorway>>, <<"trunk", c.road.trunk>>,
             <<"primary", c.road.primary>>, <<"secondary", c.road.secondary>> >>,
          c.road.other)

roadColorWithTertiaryExpr(c) ==
    Match(<< <<"motorway", c.road.motorway>>, <<"trunk", c.road.trunk>>,
             <<"primary", c.road.primary>>, <<"secondary", c.road.secondary>>,
             <<"tertiary", c.road.tertiary>>, <<"residential", c.road.residential>>,
             <<"service", c.road.service>>, <<"minor", c.road.residential>>,
             <<"unclassified", c.road.residential>> >>,
          c.road.other)

\* c.road.tunnel is defined: tunnel is the sub-table itself
tunnelColorExpr(tunnel) ==
    Match(<< <<"motorway", tunnel.motorway>>, <<"trunk", tunnel.trunk>>,
             <<"primary", tunnel.primary>>, <<"secondary", tunnel.secondary>>,
             <<"tertiary", tunnel.tertiary>>, <<"residential", tunnel.residential>>,
             <<"service", tunnel.service>>, <<"minor", tunnel.residential>>,
             <<"unclassified", tunnel.residential>> >>,
          tunnel.default)

\* c.road.bridge is defined: bridge is the sub-table itself
bridgeColorExpr(bridge) ==
    Match(<< <<"motorway", bridge.motorway>>, <<"trunk", bridge.trunk>>,
             <<"primary", bridge.primary>>, <<"secondary", bridge.secondary>>,
             <<"tertiary", bridge.tertiary>>, <<"residential", bridge.residential>>,
             <<"minor", bridge.residential>>, <<"unclassified", bridge.residential>> >>,
          bridge.default)

\* A layer with the parts of its specification the road properties read
PaintLayer(id, type, filter, lineColor, lineWidth) ==
    [op |-> "layer", id |-> id, type |-> type, filter |-> filter,
     lineColor |-> lineColor, lineWidth |-> lineWidth]

\* A literal ["interpolate", ["linear"], ["zoom"], ...] of the source, in hundredths
LinearZoom(stops) == Interpolate(<<"linear">>, "zoom", stops)

\* The building layer of a road factory, or nothing when buildings are disabled
buildingPaintLayer(id, buildings) ==
    IfSeq(buildings.enabled # "false",
          << PaintLayer(id, "fill", "none", Undefined, Undefined) >>)

\* createWorldRoadLayers with the paint of every layer
worldRoadPaintLayers(c) ==
    LET roadColor == roadColorExpr(c) IN
    << PaintLayer("road-world", "line", "majorRoad", roadColor, LinearZoom(<<0, 20, 6, 60>>)),
       PaintLayer("road-world-mid", "line", "majorRoad", roadColor,
                  LinearZoom(<<6, 60, 10, 100>>)) >>

\* createUSRoadLayers giving tunnels a default colour instead of the road colours
usRoadPaintLayers_TunnelDefaultColor(c, w, settings, buildings) ==
    LET roadColor == roadColorWithTertiaryExpr(c)
        tunnelColor == IF c.road.tunnel # Undefined THEN tunnelColorExpr(c.road.tunnel[1])
                       ELSE Literal(Some("#000000"))
        bridgeColor == IF c.road.bridge # Undefined THEN bridgeColorExpr(c.road.bridge[1])
                       ELSE roadColor
        tunnelCasingColor == OrElse(c.road.tunnelCasing, c.road.casing)
        tunnelWidths == IF w.tunnelRoad # Undefined THEN w.tunnelRoad[1] ELSE w.road
        bridgeWidths == IF w.bridgeRoad # Undefined THEN w.bridgeRoad[1] ELSE w.road
        tunnelWidth == getRoadWidthExpr(tunnelWidths, settings)
        bridgeWidth == getRoadWidthExpr(bridgeWidths, settings)
        casingWidth == getRoadCasingWidthExpr(w.roadCasing, settings)
    IN  << PaintLayer("road-tunnel-casing", "line", "tunnel", tunnelCasingColor, casingWidth),
           PaintLayer("road-tunnel", "line", "tunnel", tunnelColor, tunnelWidth),
           PaintLayer("road-casing", "line", "normalRoad", c.road.casing, casingWidth),
           PaintLayer("paths", "line", "path", c.path, zoomWidthExpr(w.path)),
           PaintLayer("road-bridge", "line", "bridge", bridgeColor, bridgeWidth),
           PaintLayer("railway", "line", "railway", c.railway, zoomWidthExpr(w.railway)) >>
        \o buildingPaintLayer("building", buildings)

\* createUSRoadLayers with the paint of every layer
usRoadPaintLayers(c, w, settings, buildings) ==
    LET roadColor == roadColorWithTertiaryExpr(c)
        tunnelColor == IF c.road.tunnel # Undefined THEN tunnelColorExpr(c.road.tunnel[1])
                       ELSE roadColor
        bridgeColor == IF c.road.bridge # Undefined THEN bridgeColorExpr(c.road.bridge[1])
                       ELSE roadColor
        tunnelCasingColor == OrElse(c.road.tunnelCasing, c.road.casing)
        tunnelWidths == IF w.tunnelRoad # Undefined THEN w.tunnelRoad[1] ELSE w.road
        bridgeWidths == IF w.bridgeRoad # Undefined THEN w.bridgeRoad[1] ELSE w.road
        tunnelWidth == getRoadWidthExpr(tunnelWidths, settings)
        bridgeWidth == getRoadWidthExpr(bridgeWidths, settings)
        casingWidth == getRoadCasingWidthExpr(w.roadCasing, settings)
    IN  << PaintLayer("road-tunnel-casing", "line", "tunnel", tunnelCasingColor, casingWidth),
           PaintLayer("road-tunnel", "line", "tunnel", tunnelColor, tunnelWidth),
           PaintLayer("road-casing", "line", "normalRoad", c.road.casing, casingWidth),
           PaintLayer("paths", "line", "path", c.path, zoomWidthExpr(w.path)),
           PaintLayer("road-bridge", "line", "bridge", bridgeColor, bridgeWidth),
           PaintLayer("railway", "line", "railway", c.railway, zoomWidthExpr(w.railway)) >>
        \o buildingPaintLayer("building", buildings)

\* createUSOverlayRoadLayers with the paint of every layer
usOverlayRoadPaintLayers(c, w, settings, buildings) ==
    LET roadColor == roadColorWithTertiaryExpr(c)
        bridgeColor == IF c.road.bridge # Undefined THEN bridgeColorExpr(c.road.bridge[1])
                       ELSE roadColor
        bridgeWidths == IF w.bridgeRoad # Undefined THEN w.bridgeRoad[1] ELSE w.road
        roadWidth == getRoadWidthExpr(w.road, settings)
        bridgeWidth == getRoadWidthExpr(bridgeWidths, settings)
        casingWidth == getRoadCasingWidthExpr(w.roadCasing, settings)
    IN  buildingPaintLayer("building-us", buildings)
        \o << PaintLayer("road-casing-us", "line", "normalRoad", c.road.casing, casingWidth),
              PaintLayer("road-us", "line", "normalRoad", roadColor, roadWidth),
              PaintLayer("road-alley", "line", "alley", c.road.service,
                         LinearZoom(<<14, 30, 15, 60, 18, 120>>)),
              PaintLayer("road-parking-aisle", "line", "parkingAisle",
                         OrElse(c.road.parkingAisle, c.road.service),
                         LinearZoom(<<15, 20, 16, 40, 18, 80>>)),
              PaintLayer("road-other", "line", "other", c.road.other,
                         LinearZoom(<<14, 30, 15, 50>>)),
              PaintLayer("road-bridge-us", "line", "bridge", bridgeColor, bridgeWidth) >>

\* The road layers of createAllLayers, in its order, with their paint
roadPaintLayers(c, w, settings, buildings) ==
    worldRoadPaintLayers(c)
    \o usRoadPaintLayers(c, w, settings, buildings)
    \o usOverlayRoadPaintLayers(c, w, settings, buildings)

\* ------------------------------------------------------------------------
\* Density colours of the places layers.  A colour string is the sequence
\* of its characters, so that darkenColor can read its digits.
\* ------------------------------------------------------------------------
HexDigits == <<"0", "1", "2", "3", "4", "5", "6", "7", "8", "9", "a", "b", "c", "d", "e", "f">>

\* parseInt(d, 16) of one lower-case hex digit
hexValue(d) == (CHOOSE i \in DOMAIN HexDigits : HexDigits[i] = d) - 1

\* parseInt(hex.substring(from, from + 2), 16), from counted from 0
parseHexPair(hex, from) == hexValue(hex[from + 1]) * 16 + hexValue(hex[from + 2])

\* Math.floor(channel * 0.75) in place of Math.round
darkenChannel_Truncated(channel) == (3 * channel) \div 4

\* Math.round(channel * 0.75): halves are rounded up
darkenChannel(channel) == (3 * channel + 2) \div 4

\* n.toString(16).padStart(2, '0') for 0 <= n <= 255
toHexPair(n) == << HexDigits[(n \div 16) + 1], HexDigits[(n % 16) + 1] >>

darkenColor(hexColor) ==
    LET hex == IF \E i \in DOMAIN hexColor : hexColor[i] = "#"
               THEN LET at == CHOOSE i \in DOMAIN hexColor :
                                 /\ hexColor[i] = "#"
                                 /\ \A j \in 1..(i - 1) : hexColor[j] # "#"
                    IN  SubSeq(hexColor, 1, at - 1) \o SubSeq(hexColor, at + 1, Len(hexColor))
               ELSE hexColor
        r == parseHexPair(hex, 0)
        g == parseHexPair(hex, 2)
        b == parseHexPair(hex, 4)
    IN  <<"#">> \o toHexPair(darkenChannel(r)) \o toHexPair(darkenChannel(g))
               \o toHexPair(darkenChannel(b))

RECURSIVE InsertByThreshold(_, _)
\* Insert the range after every range whose threshold is <= its own (stable)
InsertByThreshold(range, sorted) ==
    IF sorted = <<>> THEN <<range>>
    ELSE IF Head(sorted).threshold <= range.threshold
         THEN <<Head(sorted)>> \o InsertByThreshold(range, Tail(sorted))
    ELSE <<range>> \o sorted

\* sortRangesByThreshold that leaves the ranges in their input order
sortRangesByThreshold_InputOrder(ranges) == ranges

RECURSIVE sortRangesByThreshold(_)
sortRangesByThreshold(ranges) ==
    IF ranges = <<>> THEN <<>>
    ELSE InsertByThreshold(ranges[Len(ranges)],
                           sortRangesByThreshold(SubSeq(ranges, 1, Len(ranges) - 1)))

Step(input, default, stops) ==
    [op |-> "step", input |-> input, default |-> default, stops |-> stops]

RECURSIVE PushRanges(_, _, _)
\* for (const range of sortedRanges) expression.push(range.threshold, colour of range)
PushRanges(stops, sortedRanges, isOutline) ==
    IF sortedRanges = <<>> THEN stops
    ELSE LET range == Head(sortedRanges)
             color == IF isOutline
                      THEN IF range.outlineColor \notin {Undefined, Some(<<>>)}
                           THEN range.outlineColor[1] ELSE darkenColor(range.fillColor)
                      ELSE range.fillColor
         IN  PushRanges(stops \o <<range.threshold, color>>, Tail(sortedRanges), isOutline)

generateDensityStepForValue(densityColors, densityValueExpression) ==
    LET sortedRanges == sortRangesByThreshold(densityColors.ranges) IN
    Step([op |-> "coalesce", args |-> <<densityValueExpression, 0>>],
         densityColors.defaultFillColor,
         PushRanges(<<>>, sortedRanges, FALSE))

generateDensityStepExpression(densityColors, isOutline) ==
    LET sortedRanges == sortRangesByThreshold(densityColors.ranges)
        defaultColor ==
            IF isOutline
            THEN IF densityColors.defaultOutlineColor \notin {Undefined, Some(<<>>)}
                 THEN densityColors.defaultOutlineColor[1]
                 ELSE darkenColor(densityColors.defaultFillColor)
            ELSE densityColors.defaultFillColor
    IN  Step([op |-> "feature-state", name |-> "pop_density_sqmi"], defaultColor,
             PushRanges(<<>>, sortedRanges, isOutline))

\* "#rrggbb" as its characters
Hex(a, b, c, d, e, f) == <<"#", a, b, c, d, e, f>>

\* ["case", ["!=", ["feature-state", "pop_density_sqmi"], null], then, else]
CaseHasDensity(then, else) ==
    [op |-> "case",
     cond |-> [op |-> "!=", args |-> <<[op |-> "feature-state", name |-> "pop_density_sqmi"],
                                       "null">>],
     then |-> then, else |-> else]

\* Density per square mile computed from the attributes of a point feature
densityValueForPoints ==
    [op |-> "case",
     cond |-> [op |-> ">", args |-> <<[op |-> "coalesce", args |-> <<"ALAND", 0>>], 0>>],
     then |-> [op |-> "/", args |-> <<[op |-> "coalesce", args |-> <<"pop_total", 0>>],
                                      "ALAND in square miles">>],
     else |-> 0]

\* Thresholds and colours of the step used when no density colours are configured
hardcodedThresholds == <<100, 300, 1000, 2000, 5000, 10000>>

hardcodedFillColors ==
    << Hex("e", "f", "c", "4", "7", "e"), Hex("f", "3", "a", "d", "6", "a"),
       Hex("f", "7", "9", "4", "5", "d"), Hex("f", "9", "7", "b", "5", "7"),
       Hex("f", "6", "6", "3", "5", "6"), Hex("e", "e", "4", "d", "5", "a") >>

hardcodedOutlineColors ==
    << Hex("c", "9", "a", "3", "6", "6"), Hex("c", "8", "8", "a", "5", "4"),
       Hex("c", "7", "7", "5", "4", "a"), Hex("c", "8", "6", "2", "4", "6"),
       Hex("c", "4", "4", "e", "4", "5"), Hex("c", "0", "3", "d", "4", "8") >>

\* threshold1, colour1, threshold2, colour2, ...
hardcodedStops(colors) ==
    PushPairs(<<>>, [i \in DOMAIN hardcodedThresholds |-> <<hardcodedThresholds[i], colors[i]>>])

\* fillColorExpression without the case on the presence of the density state
fillColorExpression_NoStateCheck(places) ==
    IF places.densityColors # Undefined
    THEN generateDensityStepExpression(places.densityColors[1], FALSE)
    ELSE Step([op |-> "feature-state", name |-> "pop_density_sqmi"],
              Hex("e", "c", "d", "a", "9", "a"),
              hardcodedStops(hardcodedFillColors))

fillColorExpression(places) ==
    IF places.densityColors # Undefined
    THEN CaseHasDensity(generateDensityStepExpression(places.densityColors[1], FALSE),
                        places.fill.color)
    ELSE CaseHasDensity(Step([op |-> "feature-state", name |-> "pop_density_sqmi"],
                             Hex("e", "c", "d", "a", "9", "a"),
                             hardcodedStops(hardcodedFillColors)),
                        places.fill.color)

pointFillColorExpression(places) ==
    IF places.densityColors # Undefined
    THEN generateDensityStepForValue(places.densityColors[1], densityValueForPoints)
    ELSE Step(densityValueForPoints, Hex("e", "c", "d", "a", "9", "a"),
              hardcodedStops(hardcodedFillColors))

outlineColorExpression(places) ==
    IF places.densityColors # Undefined
    THEN CaseHasDensity(generateDensityStepExpression(places.densityColors[1], TRUE),
                        places.outline.color)
    ELSE CaseHasDensity(Step([op |-> "feature-state", name |-> "pop_density_sqmi"],
                             Hex("c", "4", "b", "8", "7", "a"),
                             hardcodedStops(hardcodedOutlineColors)),
                        places.outline.color)

\* A places layer with the colour expression of its paint
ColorLayer(id, color) == [op |-> "layer", id |-> id, color |-> color]

\* createPlacesLayers with the colour expression of every layer it paints with
\* a density colour (circle-color, fill-color, line-color)
placesColorLayers(places) ==
    IF ~Truthy(places.enabled) THEN <<>>
    ELSE
    IfSeq(places.pointsEnabled # "false",
          << ColorLayer("places-points-lowzoom", pointFillColorExpression(places)),
             ColorLayer("places-points-lowzoom-alt1", pointFillColorExpression(places)),
             ColorLayer("places-points-lowzoom-alt2", pointFillColorExpression(places)) >>)
    \o IfSeq(places.polygonsEnabled # "false",
          << ColorLayer("places-fill", fillColorExpression(places)),
             ColorLayer("places-outline", outlineColorExpression(places)) >>)

\* ------------------------------------------------------------------------
\* fill-opacity of places-fill.  Zooms, opacities and the population boost
\* are in hundredths (6.5 is 650, 0.35 is 35, 1.0 is 100, 0.05 is 5);
\* pop_total is the number itself.  A number inside an expression is Num(v).
\* ------------------------------------------------------------------------
Num(v) == [op |-> "number", value |-> v]

Arith(op, args) == [op |-> op, args |-> args]

\* ["case", ["!=", ["feature-state", "pop_total"], null], then, else]
CaseHasPopTotal(then, else) ==
    [op |-> "case",
     cond |-> [op |-> "!=", args |-> <<[op |-> "feature-state", name |-> "pop_total"], "null">>],
     then |-> then, else |-> else]

\* The population boost: 0 .. 0.2 over pop_total 0 .. 500000
populationBoost ==
    CaseHasPopTotal(
        Interpolate(<<"linear">>, [op |-> "feature-state", name |-> "pop_total"],
                    << 0, Num(0), 10000, Num(5), 50000, Num(10), 100000, Num(15),
                       500000, Num(20) >>),
        Num(0))

\* ["*", places.fill.opacity ?? 0.35, ["+", 1.0, boost]]
boostedOpacity(fill) ==
    Arith("*", << Num(Coalesce(fill.opacity, Some(35))[1]),
                  Arith("+", << Num(100), populationBoost >>) >>)

\* Variant: the stop at zoom 13 is the plain theme opacity
fillOpacityExpression_NoBoostAtZoom13(fill) ==
    Interpolate(<<"linear">>, "zoom",
                << 500, Num(0), 650, boostedOpacity(fill),
                   1300, Arith("*", << Num(Coalesce(fill.opacity, Some(35))[1]), Num(100) >>) >>)

\* "fill-opacity" of places-fill
fillOpacityExpression(fill) ==
    Interpolate(<<"linear">>, "zoom",
                << 500, Num(0), 650, boostedOpacity(fill), 1300, boostedOpacity(fill) >>)

\* ------------------------------------------------------------------------
\* Common filters.  ["==", ["get", p], v] is [op |-> "==", get |-> p, value |-> v].
\* ------------------------------------------------------------------------
Compare(op, property, value) == [op |-> op, get |-> property, value |-> value]

All(args) == [op |-> "all", args |-> args]

\* ["any", ...], ["has", p], ["!", f] and ["match", ["get", p], [values], true, false]
AnyOf(args) == [op |-> "any", args |-> args]

Has(property) == [op |-> "has", get |-> property]

Not(arg) == [op |-> "!", arg |-> arg]

MatchIn(property, values) == [op |-> "match", get |-> property, values |-> values]

\* The class list shared by filters.normalRoad and the road-other filter
NormalRoadClasses ==
    {"motorway", "trunk", "primary", "secondary", "tertiary", "residential", "service",
     "minor", "unclassified"}

\* Variant: the maritime filter does not look at the admin level
filters_MaritimeAnyLevel ==
    [hasName |-> AnyOf(<< Has("name"), Has("name:en") >>),
     majorRoad |-> All(<< Compare("!=", "brunnel", "tunnel"), Compare("!=", "brunnel", "bridge"),
                          MatchIn("class", {"motorway", "trunk", "primary", "secondary"}) >>),
     normalRoad |-> All(<< Compare("!=", "brunnel", "tunnel"), Compare("!=", "brunnel", "bridge"),
                           MatchIn("class", NormalRoadClasses),
                           Compare("!=", "service", "alley"),
                           Compare("!=", "service", "parking_aisle") >>),
     alley |-> All(<< Compare("!=", "brunnel", "tunnel"), Compare("!=", "brunnel", "bridge"),
                      Compare("==", "class", "service"), Compare("==", "service", "alley") >>),
     parkingAisle |-> All(<< Compare("!=", "brunnel", "tunnel"), Compare("!=", "brunnel", "bridge"),
                             Compare("==", "class", "service"),
                             Compare("==", "service", "parking_aisle") >>),
     tunnel |-> Compare("==", "brunnel", "tunnel"),
     bridge |-> Compare("==", "brunnel", "bridge"),
     path |-> MatchIn("class", {"path", "track", "footway", "cycleway"}),
     railway |-> Compare("==", "class", "rail"),
     countryBoundary |-> All(<< Compare("==", "admin_level", 2), Compare("!=", "maritime", 1) >>),
     maritimeBoundary |-> All(<< Compare("==", "maritime", 1) >>),
     stateBoundary |-> Compare("==", "admin_level", 4)]

filters ==
    [hasName |-> AnyOf(<< Has("name"), Has("name:en") >>),
     majorRoad |-> All(<< Compare("!=", "brunnel", "tunnel"), Compare("!=", "brunnel", "bridge"),
                          MatchIn("class", {"motorway", "trunk", "primary", "secondary"}) >>),
     normalRoad |-> All(<< Compare("!=", "brunnel", "tunnel"), Compare("!=", "brunnel", "bridge"),
                           MatchIn("class", NormalRoadClasses),
                           Compare("!=", "service", "alley"),
                           Compare("!=", "service", "parking_aisle") >>),
     alley |-> All(<< Compare("!=", "brunnel", "tunnel"), Compare("!=", "brunnel", "bridge"),
                      Compare("==", "class", "service"), Compare("==", "service", "alley") >>),
     parkingAisle |-> All(<< Compare("!=", "brunnel", "tunnel"), Compare("!=", "brunnel", "bridge"),
                             Compare("==", "class", "service"),
                             Compare("==", "service", "parking_aisle") >>),
     tunnel |-> Compare("==", "brunnel", "tunnel"),
     bridge |-> Compare("==", "brunnel", "bridge"),
     path |-> MatchIn("class", {"path", "track", "footway", "cycleway"}),
     railway |-> Compare("==", "class", "rail"),
     countryBoundary |-> All(<< Compare("==", "admin_level", 2), Compare("!=", "maritime", 1) >>),
     maritimeBoundary |-> All(<< Compare("==", "admin_level", 2), Compare("==", "maritime", 1) >>),
     stateBoundary |-> Compare("==", "admin_level", 4)]

\* The filter of the road-other layer, written inline in createUSOverlayRoadLayers
roadOtherFilter ==
    All(<< Compare("!=", "brunnel", "tunnel"), Compare("!=", "brunnel", "bridge"),
           Not(MatchIn("class", NormalRoadClasses)) >>)

\* A layer with the filter it is given
FilterLayer(id, filter) == [op |-> "layer", id |-> id, filter |-> filter]

\* The line layers of createUSOverlayRoadLayers that draw roads which are
\* neither tunnel nor bridge, each with its filter
usOverlayRoadFilters ==
    << FilterLayer("road-us", filters.normalRoad),
       FilterLayer("road-alley", filters.alley),
       FilterLayer("road-parking-aisle", filters.parkingAisle),
       FilterLayer("road-other", roadOtherFilter) >>

\* ------------------------------------------------------------------------
\* Label layers that ask for a name: each with the filter it is given.  Of
\* the conditions on class, rank, subclass and geometry only those of the
\* road labels are kept; the name condition of every layer is kept as written.
\* ------------------------------------------------------------------------
NotTunnelNorBridge == << Compare("!=", "brunnel", "tunnel"), Compare("!=", "brunnel", "bridge") >>

roadLabelFilters ==
    << FilterLayer("road-label-major",
                   All(NotTunnelNorBridge
                       \o << MatchIn("class", {"motorway", "trunk", "primary"}), Has("name") >>)),
       FilterLayer("road-label-secondary",
                   All(NotTunnelNorBridge
                       \o << Compare("==", "class", "secondary"), Has("name") >>)),
       FilterLayer("road-label-tertiary",
                   All(NotTunnelNorBridge
                       \o << MatchIn("class", {"tertiary", "residential"}), Has("name") >>)),
       FilterLayer("road-label-other",
                   All(NotTunnelNorBridge
                       \o << Not(MatchIn("class", {"motorway", "trunk", "primary", "secondary",
                                                 "tertiary", "residential"})),
                             Has("name") >>)) >>

RECURSIVE NamedLayers(_, _)
\* One layer per id, each with the name condition nameTest
NamedLayers(ids, nameTest) ==
    IF ids = <<>> THEN <<>>
    ELSE << FilterLayer(Head(ids), All(<< nameTest >>)) >> \o NamedLayers(Tail(ids), nameTest)

worldLabelsWaterLabelFilters ==
    NamedLayers(<< "marine-label-world-labels-place-ocean", "marine-label-world-labels-place",
                   "water-label-world-labels-watername-ocean",
                   "water-label-world-labels-watername" >>, filters.hasName)

basemapWaterLabelFilters ==
    NamedLayers(<< "marine-label-world-watername", "marine-label-world",
                   "water-label-world-major", "water-label-world",
                   "marine-label-world-mid-watername-ocean", "marine-label-world-mid-watername",
                   "marine-label-world-mid", "water-label-world-mid-major" >>, filters.hasName)
    \o NamedLayers(<< "water-label-world-mid" >>, Has("name"))
    \o NamedLayers(<< "marine-label-us-watername-ocean", "marine-label-us-watername",
                      "marine-label-us", "water-label-us-place", "water-label-us-major",
                      "water-label-us" >>, filters.hasName)

waterwayLabelFilters ==
    NamedLayers(<< "waterway-label-world", "waterway-label-world-mid", "waterway-label-us" >>,
                filters.hasName)

placeLabelFilters ==
    NamedLayers(<< "city-label-us-rank1-2", "city-label-us-all" >>, filters.hasName)

\* The POI layer kinds pushed once per source, in the order of the loop body
POILayerKinds ==
    << "poi-airport", "poi-airfield", "place-airport", "poi-hospital-rank1",
       "poi-hospital-rank2", "poi-hospital-rank3plus", "poi-museum-rank1", "poi-museum-rank2",
       "poi-museum-rank3plus", "poi-zoo", "poi-stadium", "place-stadium", "poi-park",
       "poi-rail-rank1", "poi-rail-rank2", "poi-rail-rank3plus", "poi-school-rank1",
       "poi-school-rank2", "poi-school-rank3plus" >>

POISources == << "poi_us", "us_high", "world_mid", "world_low" >>

RECURSIVE POILayersOfSources(_)
\* The id of a POI layer is its kind and its source: `poi-zoo-${source.name}`
POILayersOfSources(sources) ==
    IF sources = <<>> THEN <<>>
    ELSE [i \in DOMAIN POILayerKinds |->
            FilterLayer(<<POILayerKinds[i], Head(sources)>>, All(<< Has("name") >>))]
         \o POILayersOfSources(Tail(sources))

poiLabelFilters ==
    POILayersOfSources(POISources)
    \o << FilterLayer(<<"aerodrome-label-airport", "us_high">>, All(<< Has("name") >>)),
          FilterLayer(<<"park-label", "us_high">>, All(<< Has("name") >>)) >>

\* Every label layer with a name condition, in the order in which createAllLayers lists the groups
namedLabelLayers ==
    roadLabelFilters \o worldLabelsWaterLabelFilters
    \o basemapWaterLabelFilters \o waterwayLabelFilters
    \o placeLabelFilters \o poiLabelFilters

\* ------------------------------------------------------------------------
\* SpecExpr: the part of a Theme an expression builder reads is drawn from
\* a bounded set, then one builder is applied to it.
\* ------------------------------------------------------------------------
KeysOf(obj) == {obj[i][1] : i \in DOMAIN obj}

RECURSIVE ObjectsUpTo(_, _, _)
\* Objects with at most n entries: keys distinct, in any insertion order
ObjectsUpTo(keys, values, n) ==
    IF n = 0 THEN {<<>>}
    ELSE LET prev == ObjectsUpTo(keys, values, n - 1) IN
         prev \cup UNION { {Append(o, <<k, v>>) : k \in keys \ KeysOf(o), v \in values} :
                           o \in {q \in prev : Len(q) = n - 1} }

RECURSIVE ArraysUpTo(_, _)
ArraysUpTo(values, n) ==
    IF n = 0 THEN {<<>>}
    ELSE LET prev == ArraysUpTo(values, n - 1) IN
         prev \cup {Append(a, v) : a \in {q \in prev : Len(q) = n - 1}, v \in values}

\* { z6: a, z12: b, z15: c }
ZW3(a, b, c) == << <<"z6", Some(a)>>, <<"z12", Some(b)>>, <<"z15", Some(c)>> >>

\* widths.road and widths.roadCasing of myCustomMapFixedTheme
myCustomMapFixedWidths ==
    [road |->
        [motorway |-> ZW3(100, 300, 1000), trunk |-> ZW3(80, 275, 1000),
         primary |-> ZW3(70, 200, 1000), secondary |-> ZW3(60, 150, 750),
         tertiary |-> ZW3(50, 150, 600), residential |-> ZW3(40, 100, 400),
         service |-> ZW3(20, 100, 400), default |-> ZW3(40, 100, 400)],
     roadCasing |->
        [motorway |-> ZW3(150, 400, 1100), trunk |-> ZW3(120, 350, 1100),
         primary |-> ZW3(100, 280, 1100), secondary |-> ZW3(90, 220, 850),
         tertiary |-> ZW3(80, 220, 700), residential |-> ZW3(70, 180, 500),
         service |-> ZW3(50, 150, 500), default |-> ZW3(70, 180, 500)]]

\* delete obj[k] for every k in keys
Without(obj, keys) == SelectSeq(obj, LAMBDA e : e[1] \notin keys)

\* RoadClassWidths that leave out some zoom entries of one class, of every
\* class, or of every class but default
RoadWidthsInputs(base) ==
    { [c \in RoadClasses |-> IF c \in cs THEN Without(base[c], ks) ELSE base[c]] :
        cs \in {{c} : c \in RoadClasses} \cup {RoadClasses, RoadClasses \ {"default"}},
        ks \in {{}, {"z15"}, {"z6", "z12", "z15"}} }

\* A RoadClassWidths with only its mandatory entries: every class object empty
MinimalRoadWidths == [c \in RoadClasses |-> <<>>]

ThresholdZooms == 12..MaxThresholdZoom

SettingsInputs ==
    [realWorldScale : TriState,
     realWorldScaleMinZoom : {Undefined} \cup {Some(z) : z \in ThresholdZooms}]

LandFields ==
    {"wood", "grass", "scrub", "cropland", "farmland", "rock", "sand", "wetland", "default"}
LandMandatory == {"wood", "grass", "scrub", "cropland", "default"}
LanduseFields == Range(landuseClasses) \cup {"default"}
WaterFields == Range(waterClasses) \cup Range(waterwayClasses) \cup {"fill", "line", "default"}
BuildingFields ==
    {"fill", "outline", "short", "medium", "tall", "skyscraper", "supertall", "megatall",
     "default"}

\* ThemeColors with every mandatory colour set and the optional ones set or not
Colors(withOptional) ==
    LET opt(v) == IF withOptional THEN Some(v) ELSE Undefined IN
    [land |-> [f \in LandFields |->
                 IF f \in LandMandatory THEN Some("#land-" \o f) ELSE opt("#land-" \o f)],
     landuse |-> [f \in LanduseFields |->
                 IF f \in landuseMandatory \cup {"default"} THEN Some("#landuse-" \o f)
                 ELSE opt("#landuse-" \o f)],
     water |-> [f \in WaterFields |->
                 IF f \in {"fill", "line"} THEN Some("#water-" \o f)
                 ELSE opt("#water-" \o f)],
     building |-> [f \in BuildingFields |->
                 IF f \in {"fill", "outline"} THEN Some("#building-" \o f)
                 ELSE opt("#building-" \o f)]]

MinimalColors == Colors(FALSE)
FullColors == Colors(TRUE)

OverrideConfigs ==
    [useOverrideColor : TriState, overrideColor : {Undefined, Some(""), Some("#override")}]

ContourInputs ==
    [kind : {"contours"}, enabled : TriState,
     minZoom : {Undefined, Some(4), Some(8)}, maxZoom : {Undefined, Some(10)},
     majorMinZoom : {Undefined, Some(6)}, minorMinZoom : {Undefined, Some(6)},
     majorWidth : {Undefined}, majorOpacity : {Undefined, Some(800)},
     minorWidth : {Undefined}, minorOpacity : {Undefined}]

StopsInputs ==
    {[form |-> "undefined"]}
    \cup {[form |-> "number", n |-> n] : n \in {0, 2}}
    \cup {[form |-> "array", a |-> a] : a \in ArraysUpTo({0, 3, 65}, MaxArrayLen)}
    \cup {[form |-> "record", r |-> r] : r \in ObjectsUpTo(StopKeys, {1, 3}, MaxEntries)}

RoadColorClasses ==
    {"motorway", "trunk", "primary", "secondary", "tertiary", "residential", "service"}

\* c.road.tunnel or c.road.bridge when the theme supplies the sub-table
RoadSubTable(name) ==
    [f \in RoadColorClasses \cup {"default", "casing"} |-> Some("#" \o name \o "-" \o f)]

\* The colours, widths, settings and buildings config the road factories read
RoadLayerInputs ==
    {[kind |-> "roadLayers",
      colors |-> [road |-> [f \in RoadColorClasses \cup {"other", "casing"} |->
                               Some("#road-" \o f)]
                           @@ [tunnel |-> tn, bridge |-> br, tunnelCasing |-> tc,
                               parkingAisle |-> Undefined],
                  path |-> Some("#path"), railway |-> Some("#railway")],
      widths |-> [road |-> myCustomMapFixedWidths.road,
                  roadCasing |-> myCustomMapFixedWidths.roadCasing,
                  tunnelRoad |-> tr, bridgeRoad |-> brr,
                  path |-> << <<"z12", Some(20)>>, <<"z14", Some(60)>> >>,
                  railway |-> << <<"z10", Some(30)>>, <<"z14", Some(80)>> >>],
      settings |-> st,
      buildings |-> [enabled |-> be]] :
        tn \in {Undefined, Some(RoadSubTable("tunnel"))},
        br \in {Undefined, Some(RoadSubTable("bridge"))},
        tc \in {Undefined, Some("#tunnel-casing")},
        tr \in {Undefined, Some(myCustomMapFixedWidths.roadCasing)},
        brr \in {Undefined, Some(myCustomMapFixedWidths.roadCasing)},
        st \in SettingsInputs,
        be \in TriState}

\* Colours the density inputs are built from
DensityFillColors == {Hex("e", "f", "c", "4", "7", "e"), Hex("f", "3", "a", "d", "6", "a")}

DensityColorRanges ==
    [threshold : {100, 300}, fillColor : DensityFillColors,
     outlineColor : {Undefined, Some(Hex("c", "9", "a", "3", "6", "6"))}]

\* DensityColors with up to MaxRanges ranges in any order, thresholds repeated or not
DensityColorsInputs ==
    [defaultFillColor : {Hex("e", "c", "d", "a", "9", "a")},
     defaultOutlineColor : {Undefined, Some(Hex("c", "4", "b", "8", "7", "a"))},
     ranges : ArraysUpTo(DensityColorRanges, MaxRanges)]

HexColorInputs ==
    { Hex("e", "c", "d", "a", "9", "a"), <<"e", "c", "d", "a", "9", "a">>,
      Hex("0", "0", "0", "0", "0", "0"), Hex("f", "f", "f", "f", "f", "f"),
      Hex("0", "1", "0", "2", "0", "3"), Hex("f", "6", "e", "6", "b", "8") }

\* theme.places: the flags and colours createPlacesLayers reads for its colour expressions
PlacesInputs ==
    {[kind |-> "places", enabled |-> en, pointsEnabled |-> pt, polygonsEnabled |-> pg,
      fill |-> [color |-> Hex("6", "a", "7", "5", "8", "8")],
      outline |-> [color |-> Hex("8", "a", "9", "5", "9", "8")],
      densityColors |-> dc] :
        en \in {"true", "false"}, pt \in TriState, pg \in TriState,
        dc \in {Undefined}
               \cup {Some(d) : d \in {q \in DensityColorsInputs : Len(q.ranges) = MaxRanges}}}

\* theme.places.fill.opacity, absent or a number of hundredths
FillOpacityInputs ==
    {[kind |-> "fillOpacity", fill |-> [opacity |-> o]] :
        o \in {Undefined, Some(0), Some(20), Some(35), Some(50), Some(80), Some(100)}}

\* Features of a label source layer: each of name and name:en is a string or absent
NamedFeatures ==
    {[p \in {"kind", "name", "name:en", "class", "brunnel"} |->
        CASE p = "kind" -> "namedFeature"
          [] p = "name" -> n
          [] p = "name:en" -> en
          [] p = "class" -> c
          [] p = "brunnel" -> b] :
        n \in {Undefined, Some("Rue A"), Some("")}, en \in {Undefined, Some("A Street")},
        c \in {Undefined, Some("primary"), Some("secondary"), Some("residential"),
               Some("service"), Some("lake")},
        b \in {Undefined, Some("bridge")}}

\* Features of the transportation source layer: class, service and brunnel
\* are strings or absent
TransportationFeatures ==
    [kind : {"transportation"},
     class : {Undefined} \cup {Some(c) : c \in NormalRoadClasses
                                   \cup {"path", "track", "rail", "busway", "raceway"}},
     service : {Undefined, Some("alley"), Some("parking_aisle"), Some("driveway")},
     brunnel : {Undefined, Some("tunnel"), Some("bridge"), Some("ford")}]

\* Boundary features: admin_level and maritime are numbers or absent
BoundaryFeatures ==
    [kind : {"feature"},
     admin_level : {Undefined, Some(0), Some(2), Some(4)},
     maritime : {Undefined, Some(0), Some(1), Some(2)}]

ExprInputs ==
    {[kind |-> "zoomWidths", widths |-> w] :
        w \in ObjectsUpTo(ZoomKeys, {Undefined, Some(20), Some(60)}, MaxEntries)}
    \cup {[kind |-> "number", n |-> n] : n \in {0, 60}}
    \cup {[kind |-> "road", road |-> r, roadCasing |-> rc, settings |-> st] :
            r \in RoadWidthsInputs(myCustomMapFixedWidths.road) \cup {MinimalRoadWidths},
            rc \in {myCustomMapFixedWidths.roadCasing, MinimalRoadWidths},
            st \in SettingsInputs}
    \cup ContourInputs
    \cup {[kind |-> "colors", colors |-> c, land |-> l, water |-> w,
           heightColorsMinZoom |-> h] :
            c \in {MinimalColors, FullColors}, l \in OverrideConfigs, w \in OverrideConfigs,
            h \in {Undefined, Some(14)}}
    \cup {[kind |-> "stops", input |-> i, defaultStops |-> <<0, 1, 65, 3>>] :
            i \in StopsInputs}
    \cup RoadLayerInputs
    \cup {[kind |-> "hexColor", color |-> c] : c \in HexColorInputs}
    \cup {[kind |-> "density", densityColors |-> d] : d \in DensityColorsInputs}
    \cup PlacesInputs
    \cup BoundaryFeatures
    \cup NamedFeatures
    \cup FillOpacityInputs
    \cup TransportationFeatures

InitExpr ==
    /\ cfg \in ExprInputs
    /\ epc = "themed"
    /\ expr = [fn |-> "none", es |-> <<>>]
    /\ theme = myCustomMapFixedTheme
    /\ pc = "idle"
    /\ style = NoStyle
    /\ out = NoOut
    /\ attributeCache = {}
    /\ loads = <<>>
    /\ fetched = <<>>
    /\ map = [style |-> FALSE]
    /\ init = [at |-> "none"]

\* The builder fn returned the expressions es
Emit(fn, es) ==
    /\ epc = "themed"
    /\ expr' = [fn |-> fn, es |-> es]
    /\ epc' = "done"
    /\ UNCHANGED <<theme, pc, style, out, cfg, placesVars>>

ZoomWidthExpr ==
    /\ cfg.kind = "zoomWidths"
    /\ Emit("zoomWidthExpr", << zoomWidthExpr(cfg.widths) >>)

OpacityExpr ==
    /\ cfg.kind \in {"zoomWidths", "number"}
    /\ Emit("opacityExpr",
            << opacityExpr(IF cfg.kind = "number" THEN [number |-> cfg.n]
                           ELSE [zoomWidths |-> cfg.widths]) >>)

GetRoadWidthExpr ==
    /\ cfg.kind = "road"
    /\ Emit("getRoadWidthExpr", << getRoadWidthExpr(cfg.road, cfg.settings) >>)

GetRoadCasingWidthExpr ==
    /\ cfg.kind = "road"
    /\ Emit("getRoadCasingWidthExpr", << getRoadCasingWidthExpr(cfg.roadCasing, cfg.settings) >>)

ContourPaint ==
    /\ cfg.kind = "contours"
    /\ Emit("createContourLayers", contourPaint(cfg))

LandcoverFillColor ==
    /\ cfg.kind = "colors"
    /\ Emit("landcoverFillColor", << landcoverFillColor(cfg.colors, cfg.land) >>)

LanduseFillColor ==
    /\ cfg.kind = "colors"
    /\ Emit("landuseFillColor", << landuseFillColor(cfg.colors, cfg.land) >>)

WaterFillColor ==
    /\ cfg.kind = "colors"
    /\ Emit("waterFillColor", << waterFillColor(cfg.colors, cfg.water) >>)

WaterwayLineColor ==
    /\ cfg.kind = "colors"
    /\ Emit("waterwayLineColor",
            << waterwayLineColor(cfg.colors,
                   [useOverrideColorWaterway |-> cfg.water.useOverrideColor,
                    overrideColorWaterway |-> cfg.water.overrideColor]) >>)

BuildingFillColor ==
    /\ cfg.kind = "colors"
    /\ Emit("buildingFillColor", << buildingFillColor(cfg.colors, cfg.heightColorsMinZoom) >>)

NormalizeStops ==
    /\ cfg.kind = "stops"
    /\ Emit("normalizeStops",
            << [op |-> "stops", stops |-> normalizeStops(cfg.input, cfg.defaultStops)] >>)

\* The road factories as createAllLayers calls them on one theme
CreateRoadLayers ==
    /\ cfg.kind = "roadLayers"
    /\ Emit("createRoadLayers",
            roadPaintLayers(cfg.colors, cfg.widths, cfg.settings, cfg.buildings))

DarkenColor ==
    /\ cfg.kind = "hexColor"
    /\ Emit("darkenColor", << [op |-> "literal", value |-> darkenColor(cfg.color)] >>)

GenerateDensityStepExpression ==
    /\ cfg.kind = "density"
    /\ \E isOutline \in BOOLEAN :
          Emit(IF isOutline THEN "generateDensityStepExpression(outline)"
               ELSE "generateDensityStepExpression(fill)",
               << generateDensityStepExpression(cfg.densityColors, isOutline) >>)

GenerateDensityStepForValue ==
    /\ cfg.kind = "density"
    /\ Emit("generateDensityStepForValue",
            << generateDensityStepForValue(cfg.densityColors, densityValueForPoints) >>)

CreatePlacesLayers ==
    /\ cfg.kind = "places"
    /\ Emit("createPlacesLayers", placesColorLayers(cfg))

\* The boundary filters handed to the renderer, which applies them to a feature
BoundaryFilters ==
    /\ cfg.kind = "feature"
    /\ Emit("filters", << filters.countryBoundary, filters.maritimeBoundary,
                          filters.stateBoundary >>)

\* The fill-opacity expression of places-fill handed to the renderer
CreatePlacesFillOpacity ==
    /\ cfg.kind = "fillOpacity"
    /\ Emit("placesFillOpacity", << fillOpacityExpression(cfg.fill) >>)

\* The label layers and their filters handed to the renderer
LabelFilters ==
    /\ cfg.kind = "namedFeature"
    /\ Emit("labelFilters", namedLabelLayers)

\* The overlay road layers and their filters handed to the renderer
OverlayRoadFilters ==
    /\ cfg.kind = "transportation"
    /\ Emit("overlayRoadFilters", usOverlayRoadFilters)

NextExpr ==
    \/ ZoomWidthExpr
    \/ OpacityExpr
    \/ GetRoadWidthExpr
    \/ GetRoadCasingWidthExpr
    \/ ContourPaint
    \/ LandcoverFillColor
    \/ LanduseFillColor
    \/ WaterFillColor
    \/ WaterwayLineColor
    \/ BuildingFillColor
    \/ NormalizeStops
    \/ CreateRoadLayers
    \/ DarkenColor
    \/ GenerateDensityStepExpression
    \/ GenerateDensityStepForValue
    \/ CreatePlacesLayers
    \/ BoundaryFilters
    \/ LabelFilters
    \/ CreatePlacesFillOpacity
    \/ OverlayRoadFilters

SpecExpr == InitExpr /\ [][NextExpr]_vars

\* ------------------------------------------------------------------------
\* Places attribute data (placesData.ts).  A state FIPS code is a sequence
\* of characters; attribute data is the set of GEOIDs it has entries for.
\* ------------------------------------------------------------------------
RECURSIVE padStart(_, _, _)
\* String.prototype.padStart with a one-character pad string
padStart(s, targetLength, padString) ==
    IF Len(s) >= targetLength THEN s
    ELSE padStart(<<padString>> \o s, targetLength, padString)

\* The state codes the callers pass
StatefpInputs == { <<"1">>, <<"0", "1">>, <<"0", "6">> }

PaddedStatefps == {padStart(s, 2, "0") : s \in StatefpInputs}

\* The attribute file of a state: the GEOIDs it has attributes for
PlacesOf(paddedStatefp) ==
    IF paddedStatefp = <<"0", "1">> THEN {"0100124"}
    ELSE IF paddedStatefp = <<"0", "6">> THEN {"0600562", "0600135"}
    ELSE {}

GEOIDs == UNION {PlacesOf(s) : s \in PaddedStatefps}

NoFetches == [s \in PaddedStatefps |-> 0]

\* loadPlacesAttributesByState up to its first await: a cached state returns
\* at once, any other has its request sent
StartLoad(statefp, owner) ==
    [statefp |-> padStart(statefp, 2, "0"), owner |-> owner,
     at |-> IF padStart(statefp, 2, "0") \in attributeCache THEN "returned" ELSE "fetch"]

\* statefps.map(statefp => loadPlacesAttributesByState(statefp))
StartLoads(statefps, owner) == [i \in DOMAIN statefps |-> StartLoad(statefps[i], owner)]

\* The argument lists of loadPlacesAttributesByStates
StatefpLists ==
    UNION {[1..n -> StatefpInputs] : n \in 1..MaxStates}

LoadPlacesAttributesByState(statefp) ==
    /\ Len(loads) < MaxLoads
    /\ loads' = Append(loads, StartLoad(statefp, "app"))
    /\ UNCHANGED <<attributeCache, fetched, map, init, styleVars>>

LoadPlacesAttributesByStates(statefps) ==
    /\ Len(loads) + Len(statefps) <= MaxLoads
    /\ loads' = loads \o StartLoads(statefps, "app")
    /\ UNCHANGED <<attributeCache, fetched, map, init, styleVars>>

\* await fetch(url) settles: with response.ok the request was a successful
\* fetch, otherwise the call throws
FetchResponds(i, ok) ==
    /\ loads[i].at = "fetch"
    /\ loads' = [loads EXCEPT ![i].at = IF ok THEN "json" ELSE "thrown"]
    /\ fetched' = IF ok THEN [fetched EXCEPT ![loads[i].statefp] = @ + 1] ELSE fetched
    /\ UNCHANGED <<attributeCache, map, init, styleVars>>

\* await response.json() settles: the data is cached and returned, or the
\* body is invalid and the call throws
JsonResolves(i, valid) ==
    /\ loads[i].at = "json"
    /\ loads' = [loads EXCEPT ![i].at = IF valid THEN "returned" ELSE "thrown"]
    /\ attributeCache' = IF valid THEN attributeCache \cup {loads[i].statefp}
                         ELSE attributeCache
    /\ UNCHANGED <<fetched, map, init, styleVars>>

\* clearAttributeCache(); the count of fetches starts again with it
ClearAttributeCache ==
    /\ attributeCache' = {}
    /\ fetched' = NoFetches
    /\ UNCHANGED <<loads, map, init, styleVars>>

NoMap == [style |-> FALSE]

NoInit == [at |-> "none"]

InitCache ==
    /\ attributeCache = {}
    /\ loads = <<>>
    /\ fetched = NoFetches
    /\ map = NoMap
    /\ init = NoInit
    /\ theme = myCustomMapFixedTheme
    /\ pc = "idle"
    /\ style = NoStyle
    /\ out = NoOut
    /\ cfg = NoCfg
    /\ epc = "idle"
    /\ expr = NoExpr

NextCache ==
    \/ \E statefp \in StatefpInputs : LoadPlacesAttributesByState(statefp)
    \/ \E statefps \in StatefpLists : LoadPlacesAttributesByStates(statefps)
    \/ \E i \in DOMAIN loads, ok \in BOOLEAN : FetchResponds(i, ok)
    \/ \E i \in DOMAIN loads, valid \in BOOLEAN : JsonResolves(i, valid)
    \/ ClearAttributeCache

SpecCache == InitCache /\ [][NextCache]_vars

\* ------------------------------------------------------------------------
\* The map and the places interactivity (placesData.ts, placesMapSetup.ts).
\* init.steps lists the calls initializePlacesInteractivity has made, in order.
\* map.doc is what the style document brings when it loads; onceLoad holds
\* the data of the listeners waiting for the load event; featureState counts
\* the setFeatureState calls that succeeded per GEOID and asked the calls of
\* updateMapFeatureStates that carried the GEOID; setFeatureState throws for
\* the GEOIDs in rejects.
\* ------------------------------------------------------------------------
PlacesSourceId == "places-source"

DefaultLayerIds == <<"places-fill", "places-outline">>

Maps ==
    {[style |-> st, loaded |-> ld, doc |-> [sources |-> src, layers |-> ly],
      sources |-> IF st THEN src ELSE {}, layers |-> IF st THEN ly ELSE {},
      visible |-> << <<"0", "6">> >>, onceLoad |-> <<>>,
      featureState |-> [g \in GEOIDs |-> 0], asked |-> [g \in GEOIDs |-> 0],
      rejects |-> rj, clickHandlers |-> 0, clickLayers |-> {}, hoverLayers |-> {},
      updates |-> 0] :
        st \in BOOLEAN, ld \in BOOLEAN,
        src \in {{}, {PlacesSourceId}},
        ly \in {{}, {"places-fill"}, {"places-fill", "places-outline"}},
        rj \in {{}, {"0600562"}}}

\* updateMapFeatureStates(map, data, sourceId, sourceLayer): without the
\* source a once-listener for "load" is registered; with it every GEOID of
\* the data is set, a throwing setFeatureState being caught per GEOID
updateMapFeatureStates(m, data, sourceId) ==
    IF sourceId \notin m.sources
    THEN [m EXCEPT !.onceLoad = Append(@, data)]
    ELSE [m EXCEPT !.featureState =
            [g \in GEOIDs |-> IF g \in data \ m.rejects THEN @[g] + 1 ELSE @[g]]]

\* A call of updateMapFeatureStates from outside, counted per GEOID
CallUpdate(m, data, sourceId) ==
    updateMapFeatureStates(
        [m EXCEPT !.asked = [g \in GEOIDs |-> IF g \in data THEN @[g] + 1 ELSE @[g]]],
        data, sourceId)

RECURSIVE FireLoad(_, _)
\* The once-listeners of "load" run in order; what they register while the
\* event fires is not run by it
FireLoad(listeners, m) ==
    IF listeners = <<>> THEN m
    ELSE FireLoad(Tail(listeners), updateMapFeatureStates(m, Head(listeners), PlacesSourceId))

\* getVisibleStates(map): the states whose bounds intersect the viewport, or
\* the default set when none does
getVisibleStates(m) ==
    IF m.visible = <<>>
    THEN << <<"0", "6">>, <<"4", "8">>, <<"1", "2">>, <<"3", "6">>, <<"4", "2">>,
            <<"1", "7">>, <<"3", "9">>, <<"1", "3">>, <<"3", "7">>, <<"2", "6">> >>
    ELSE m.visible

\* The options of initializePlacesInteractivity that differ between calls
InitOptions ==
    [statesToLoad : {Undefined, Some(<<>>), Some(<< <<"0", "1">> >>),
                     Some(<< <<"1">>, <<"0", "6">> >>)},
     enableHover : {TRUE},
     onInitComplete : BOOLEAN]

\* const states = statesToLoad || getVisibleStates(map): an empty array is truthy
statesOf(options, m) ==
    IF options.statesToLoad # Undefined THEN options.statesToLoad[1] ELSE getVisibleStates(m)

existingLayers(m, layerIds) == SelectSeq(layerIds, LAMBDA id : id \in m.layers)

\* Lines 113-143: the early returns before the data is loaded
initChecks(m, options) ==
    IF PlacesSourceId \notin m.sources THEN "no-source"
    ELSE IF existingLayers(m, DefaultLayerIds) = <<>> THEN "no-layers"
    ELSE IF statesOf(options, m) = <<>> THEN "no-states"
    ELSE "loading"

\* Variant: the promise resolves although a call has thrown
promiseAll_IgnoreRejected(ls, idxs) ==
    IF \A i \in idxs : ls[i].at \in {"returned", "thrown"} THEN "resolved"
    ELSE "pending"

\* Promise.all over the calls idxs: rejected as soon as one has thrown,
\* resolved when all have returned
promiseAll(ls, idxs) ==
    IF \E i \in idxs : ls[i].at = "thrown" THEN "rejected"
    ELSE IF \A i \in idxs : ls[i].at = "returned" THEN "resolved"
    ELSE "pending"

\* From the source check up to await loadPlacesAttributesByStates(states), on the map m
InitProceed(m, options) ==
    LET outcome == initChecks(m, options)
        states == statesOf(options, m)
    IN  IF outcome = "loading"
        THEN /\ Len(loads) + Len(states) <= MaxLoads
             /\ loads' = loads \o StartLoads(states, "init")
             /\ init' = [at |-> "loading", options |-> options, states |-> states,
                         loads |-> (Len(loads) + 1)..(Len(loads) + Len(states)),
                         steps |-> <<"loadPlacesAttributesByStates">>, completeCalls |-> 0]
        ELSE /\ loads' = loads
             /\ init' = [at |-> outcome, options |-> options, states |-> <<>>,
                         loads |-> {}, steps |-> <<>>, completeCalls |-> 0]

\* initializePlacesInteractivity(map, options) up to its first await
InitializePlacesInteractivity(options) ==
    /\ init.at = "none"
    /\ IF ~map.style
       THEN /\ init' = [at |-> "waitStyle", options |-> options, states |-> <<>>,
                        loads |-> {}, steps |-> <<>>, completeCalls |-> 0]
            /\ loads' = loads
       ELSE InitProceed(map, options)
    /\ UNCHANGED <<attributeCache, fetched, map, styleVars>>

\* The style.load event: the sources and layers of the document exist, and
\* a waiting initializePlacesInteractivity goes on to its checks
StyleLoad ==
    /\ ~map.style
    /\ map' = [map EXCEPT !.style = TRUE, !.sources = map.doc.sources,
                          !.layers = map.doc.layers]
    /\ IF init.at = "waitStyle" THEN InitProceed(map', init.options)
       ELSE UNCHANGED <<init, loads>>
    /\ UNCHANGED <<attributeCache, fetched, styleVars>>

\* The load event, fired once, after the style has loaded
MapLoad ==
    /\ map.style
    /\ ~map.loaded
    /\ map' = FireLoad(map.onceLoad, [map EXCEPT !.loaded = TRUE, !.onceLoad = <<>>])
    /\ UNCHANGED <<attributeCache, loads, fetched, init, styleVars>>

\* The page adds the places source to the loaded style: map.addSource
AddSource ==
    /\ map.style
    /\ PlacesSourceId \notin map.sources
    /\ map' = [map EXCEPT !.sources = @ \cup {PlacesSourceId}]
    /\ UNCHANGED <<attributeCache, loads, fetched, init, styleVars>>

\* Object.assign({}, ...results) of the calls idxs
attributeDataOf(ls, idxs) == UNION {PlacesOf(ls[i].statefp) : i \in idxs}

\* setupPlacesClickHandler: map.on('click', placesClickHandler), the handler
\* querying the layers layerIds
setupPlacesClickHandler(m, layerIds) ==
    [m EXCEPT !.clickHandlers = @ + 1, !.clickLayers = layerIds]

\* setupPlacesHoverCursor: mouseenter and mouseleave handlers on every layer that exists
setupPlacesHoverCursor(m, layerIds) ==
    [m EXCEPT !.hoverLayers = layerIds \cap m.layers]

\* Lines 166-197: the calls made once the data has loaded, in their order
stepsAfterLoad(options) ==
    <<"updateMapFeatureStates", "setupPlacesClickHandler">>
    \o (IF options.enableHover THEN <<"setupPlacesHoverCursor">> ELSE <<>>)
    \o (IF options.onInitComplete THEN <<"onInitComplete">> ELSE <<>>)

\* Lines 150-204: the awaited load settles; on success the feature states
\* are updated, the click handler and the hover cursor set up and
\* onInitComplete called, on failure the error is thrown on
InitResume ==
    /\ init.at = "loading"
    /\ promiseAll(loads, init.loads) # "pending"
    /\ IF promiseAll(loads, init.loads) = "rejected"
       THEN /\ init' = [init EXCEPT !.at = "thrown"]
            /\ map' = map
       ELSE LET attributeData == attributeDataOf(loads, init.loads)
                updated == CallUpdate(map, attributeData, PlacesSourceId)
                availableLayers == Range(existingLayers(map, DefaultLayerIds))
            IN  /\ map' = IF init.options.enableHover
                           THEN setupPlacesHoverCursor(
                                    setupPlacesClickHandler(updated, availableLayers),
                                    availableLayers)
                           ELSE setupPlacesClickHandler(updated, availableLayers)
                /\ init' = [init EXCEPT !.at = "done",
                                        !.steps = @ \o stepsAfterLoad(init.options),
                                        !.completeCalls = IF init.options.onInitComplete
                                                          THEN @ + 1 ELSE @]
    /\ UNCHANGED <<attributeCache, loads, fetched, styleVars>>

\* A direct call of updateMapFeatureStates with the data of one state or of all states
UpdateMapFeatureStates(data) ==
    /\ map.updates < MaxUpdates
    /\ map' = [CallUpdate(map, data, PlacesSourceId) EXCEPT !.updates = @ + 1]
    /\ UNCHANGED <<attributeCache, loads, fetched, init, styleVars>>

InitMap ==
    /\ attributeCache \in {{}, {<<"0", "1">>}}
    /\ loads = <<>>
    /\ fetched = NoFetches
    /\ map \in {m \in Maps : m.loaded => m.style}
    /\ init = NoInit
    /\ theme = myCustomMapFixedTheme
    /\ pc = "idle"
    /\ style = NoStyle
    /\ out = NoOut
    /\ cfg = NoCfg
    /\ epc = "idle"
    /\ expr = NoExpr

NextMap ==
    \/ \E options \in InitOptions : InitializePlacesInteractivity(options)
    \/ StyleLoad
    \/ MapLoad
    \/ AddSource
    \/ InitResume
    \/ \E data \in {PlacesOf(<<"0", "1">>), GEOIDs} : UpdateMapFeatureStates(data)
    \/ \E i \in DOMAIN loads, ok \in BOOLEAN : FetchResponds(i, ok)
    \/ \E i \in DOMAIN loads, valid \in BOOLEAN : JsonResolves(i, valid)

SpecMap == InitMap /\ [][NextMap]_vars

\* The events the browser and the map deliver sooner or later: the style and
\* load events, the settling of every fetch and of every awaited promise
SpecMapFair ==
    /\ SpecMap
    /\ WF_vars(StyleLoad)
    /\ WF_vars(MapLoad)
    /\ WF_vars(InitResume)
    /\ WF_vars(\E i \in DOMAIN loads, ok \in BOOLEAN : FetchResponds(i, ok))
    /\ WF_vars(\E i \in DOMAIN loads, valid \in BOOLEAN : JsonResolves(i, valid))

\* ------------------------------------------------------------------------
\* Properties of the expression builders (checked under SpecExpr)
\* ------------------------------------------------------------------------
IsZoomInterpolate(e) == e.op = "interpolate" /\ e.input = "zoom"

NumStops(e) == Len(e.stops) \div 2

StopZoom(e, k) == e.stops[2 * k - 1]

StopOut(e, k) == e.stops[2 * k]

StrictlyAscending(e) ==
    \A k \in 1..(NumStops(e) - 1) : StopZoom(e, k) < StopZoom(e, k + 1)

\* Every output of a match expression is a value
MatchConcrete(m) ==
    /\ m.fallback # Undefined
    /\ \A i \in DOMAIN m.arms : m.arms[i][2] # Undefined

\* Output number a of a road-class match: arm a, or the fallback for a = 0
ArmValue(m, a) == IF a = 0 THEN m.fallback ELSE m.arms[a][2]

\* The Theme of the state fills in only mandatory entries
OnlyMandatory ==
    \/ /\ cfg.kind = "road"
       /\ cfg.road = MinimalRoadWidths
       /\ cfg.roadCasing = MinimalRoadWidths
    \/ /\ cfg.kind = "colors"
       /\ cfg.colors = MinimalColors
       /\ cfg.land = [useOverrideColor |-> "undefined", overrideColor |-> Undefined]
       /\ cfg.water = [useOverrideColor |-> "undefined", overrideColor |-> Undefined]
       /\ cfg.heightColorsMinZoom = Undefined

\* C6: for a theme that fills in only the mandatory entries, every value
\* position of the emitted road width, casing width, landcover, landuse,
\* water, waterway and building colour expressions holds a value: no
\* undefined reaches the output.
C6_ConcreteValues ==
    (epc = "done" /\ OnlyMandatory) =>
        LET e == expr.es[1] IN
        CASE expr.fn \in {"getRoadWidthExpr", "getRoadCasingWidthExpr"} ->
                \A k \in 1..NumStops(e) : MatchConcrete(StopOut(e, k))
          [] expr.fn \in {"landcoverFillColor", "landuseFillColor", "waterFillColor",
                          "waterwayLineColor"} ->
                MatchConcrete(e)
          [] expr.fn = "buildingFillColor" ->
                \A k \in 1..NumStops(e) : StopOut(e, k) # Undefined

\* C7: every emitted interpolate-over-zoom expression has an even number of
\* stop entries whose zooms are strictly ascending.
C7_StopsWellFormed ==
    epc = "done" =>
        \A i \in DOMAIN expr.es :
            IsZoomInterpolate(expr.es[i]) =>
                /\ Len(expr.es[i].stops) % 2 = 0
                /\ StrictlyAscending(expr.es[i])

\* C8: a zoom-stop mapping with fewer than 2 stops after normalization never
\* becomes an interpolation (the default value is emitted instead), so no
\* interpolate with zero stops is emitted; normalizeStops returns at least 2
\* stops or the default stop set.
C8_FallbackBelowTwoStops ==
    epc = "done" =>
        /\ expr.fn \in {"zoomWidthExpr", "opacityExpr"} =>
              (expr.es[1].op = "interpolate" => NumStops(expr.es[1]) >= 2)
        /\ expr.fn = "normalizeStops" =>
              \/ NumStops(expr.es[1]) >= 2
              \/ expr.es[1].stops = cfg.defaultStops

\* C9: in real-world-scale mode, for every output of the road-class match
\* (the default branch included) and every threshold zoom, the stop widths
\* are non-decreasing from zoom 6 to zoom 20 and the zoom-20 stop equals the
\* threshold stop times 2^(20 - threshold), which is what makes the width
\* double per zoom level from the threshold on.
C9_RealWorldDoubling ==
    (epc = "done" /\ expr.fn = "getRoadWidthExpr" /\ Truthy(cfg.settings.realWorldScale)) =>
        LET e == expr.es[1]
            threshold == StopZoom(e, 3)
            w(a, k) == ArmValue(StopOut(e, k), a)
        IN  \A a \in 0..Len(roadClassArms) :
                (\A k \in 1..4 : w(a, k) # Undefined) =>
                    /\ \A k \in 1..3 : w(a, k)[1] <= w(a, k + 1)[1]
                    /\ w(a, 4)[1] = w(a, 3)[1] * 2 ^ (20 - threshold)

\* Interpolation factor t of zoom z between the stops at z0 and z1, as the
\* fraction <<numerator, denominator>>: (z - z0) / (z1 - z0) for linear,
\* (b^(z - z0) - 1) / (b^(z1 - z0) - 1) for exponential with base b
InterpolationFactor(interp, z, z0, z1) ==
    IF interp[1] = "linear" THEN << z - z0, z1 - z0 >>
    ELSE << interp[2] ^ (z - z0) - 1, interp[2] ^ (z1 - z0) - 1 >>

\* Width the renderer draws at zoom z for output a of the road-class match,
\* as a fraction: the first output below the first stop, the last output
\* above the last stop, v0 + (v1 - v0) * t between two stops
WidthAt(e, a, z) ==
    LET n == NumStops(e)
        v(k) == ArmValue(StopOut(e, k), a)[1]
    IN  IF z <= StopZoom(e, 1) THEN << v(1), 1 >>
        ELSE IF z >= StopZoom(e, n) THEN << v(n), 1 >>
        ELSE LET k == CHOOSE j \in 1..(n - 1) : StopZoom(e, j) <= z /\ z < StopZoom(e, j + 1)
                 t == InterpolationFactor(e.interp, z, StopZoom(e, k), StopZoom(e, k + 1))
             IN  << v(k) * t[2] + (v(k + 1) - v(k)) * t[1], t[2] >>

SameWidth(p, q) == p[1] * q[2] = q[1] * p[2]

\* Every stop of e gives output a a value
ArmDefined(e, a) == \A k \in 1..NumStops(e) : ArmValue(StopOut(e, k), a) # Undefined

\* C10: below the real-world threshold zoom the real-world-scale expression
\* gives every road class the width the fixed (linear) expression gives.
C10_FixedBelowThreshold ==
    (epc = "done" /\ expr.fn = "getRoadWidthExpr" /\ Truthy(cfg.settings.realWorldScale)) =>
        LET real == expr.es[1]
            fixed == roadWidthExpr(cfg.road)
            threshold == StopZoom(real, 3)
        IN  \A a \in 0..Len(roadClassArms) :
                (StrictlyAscending(real) /\ ArmDefined(real, a) /\ ArmDefined(fixed, a)) =>
                    \A z \in 6..(threshold - 1) :
                        SameWidth(WidthAt(real, a, z), WidthAt(fixed, a, z))

\* ------------------------------------------------------------------------
\* Properties of the road layers (checked under SpecExpr)
\* ------------------------------------------------------------------------
\* The emitted layer with the given id
LayerById(es, id) == es[CHOOSE i \in DOMAIN es : es[i].id = id]

RoadCasingLayerIds == {"road-tunnel-casing", "road-casing", "road-casing-us"}

RoadFillLayerIds == {"road-tunnel", "road-bridge", "road-us", "road-bridge-us"}

\* The zooms of the stops of an interpolate expression, in order
StopZooms(e) == [k \in 1..NumStops(e) |-> StopZoom(e, k)]

\* The last stop of e is at zoom 20 and gives every output of the class match
\* the output of the stop before it times 2^(20 - zoom of that stop)
DoublingStop(e) ==
    LET n == NumStops(e) IN
    /\ n >= 2
    /\ StopZoom(e, n) = 20
    /\ \A a \in 0..Len(roadClassArms) :
          LET last == ArmValue(StopOut(e, n), a)
              base == ArmValue(StopOut(e, n - 1), a)
          IN  (last # Undefined /\ base # Undefined) =>
                  last[1] = base[1] * 2 ^ (20 - StopZoom(e, n - 1))

\* C11: when settings.realWorldScale is true, the line-width of every road
\* casing layer uses the same interpolation mode and the same stop zooms
\* (so the same threshold zoom) as the line-width of the road fill layers,
\* and ends in the zoom-20 doubling stop.
C11_CasingScalesAsFill ==
    (epc = "done" /\ expr.fn = "createRoadLayers" /\ Truthy(cfg.settings.realWorldScale)) =>
        \A cid \in RoadCasingLayerIds, fid \in RoadFillLayerIds :
            LET casing == LayerById(expr.es, cid).lineWidth
                fill == LayerById(expr.es, fid).lineWidth
            IN  /\ casing.interp = fill.interp
                /\ StopZooms(casing) = StopZooms(fill)
                /\ DoublingStop(casing)

\* ------------------------------------------------------------------------
\* Properties of the colour overrides (checked under SpecExpr)
\* ------------------------------------------------------------------------
\* The override config the colour builder of the state was given
OverrideConfigOf(fn) ==
    IF fn \in {"landcoverFillColor", "landuseFillColor"} THEN cfg.land ELSE cfg.water

OverrideBuilders ==
    {"landcoverFillColor", "landuseFillColor", "waterFillColor", "waterwayLineColor"}

C13_TunnelBridgeInherit ==
    (epc = "done" /\ expr.fn = "createRoadLayers") =>
        LET surface == LayerById(expr.es, "road-us").lineColor IN
        /\ cfg.colors.road.tunnel = Undefined =>
                LayerById(expr.es, "road-tunnel").lineColor = surface
        /\ cfg.colors.road.bridge = Undefined =>
                /\ LayerById(expr.es, "road-bridge").lineColor = surface
                /\ LayerById(expr.es, "road-bridge-us").lineColor = surface

C13_Witness ==
    /\ epc = "done"
    /\ expr.fn = "createRoadLayers"
    /\ cfg.colors.road.tunnel = Undefined
    /\ cfg.colors.road.bridge # Undefined
    /\ LayerById(expr.es, "road-tunnel").lineColor = roadColorWithTertiaryExpr(cfg.colors)
    /\ LayerById(expr.es, "road-bridge").lineColor # LayerById(expr.es, "road-us").lineColor

\* ------------------------------------------------------------------------
\* Properties of the density colours (checked under SpecExpr)
\* ------------------------------------------------------------------------
DensityStepBuilders ==
    {"generateDensityStepExpression(fill)", "generateDensityStepExpression(outline)",
     "generateDensityStepForValue"}

\* The breakpoints of a step expression, in order
Breakpoints(e) == [k \in 1..NumStops(e) |-> e.stops[2 * k - 1]]

IndexPermutations(n) == {p \in [1..n -> 1..n] : \A i, j \in 1..n : p[i] = p[j] => i = j}

\* The colour a range gives to a fill step or to an outline step
RangeColor(range, isOutline) ==
    IF ~isOutline THEN range.fillColor
    ELSE IF range.outlineColor \notin {Undefined, Some(<<>>)} THEN range.outlineColor[1]
    ELSE darkenColor(range.fillColor)

DistinctThresholds(ranges) ==
    \A i, j \in DOMAIN ranges : ranges[i].threshold = ranges[j].threshold => i = j

\* C14: whatever the order of the density colour ranges in the theme, the
\* breakpoints of the compiled step expression are in ascending order
\* (strictly when the thresholds are distinct), there is one breakpoint per
\* range, and each breakpoint is followed by the colour of the range that
\* carries that threshold.
C14_BreakpointsSorted ==
    (epc = "done" /\ expr.fn \in DensityStepBuilders) =>
        LET e == expr.es[1]
            ranges == cfg.densityColors.ranges
            n == Len(ranges)
            isOutline == expr.fn = "generateDensityStepExpression(outline)"
            bp == Breakpoints(e)
        IN  /\ NumStops(e) = n
            /\ \A k \in 1..(n - 1) : bp[k] <= bp[k + 1]
            /\ DistinctThresholds(ranges) => \A k \in 1..(n - 1) : bp[k] < bp[k + 1]
            /\ \E p \in IndexPermutations(n) :
                  \A k \in 1..n :
                      /\ bp[k] = ranges[p[k]].threshold
                      /\ StopOut(e, k) = RangeColor(ranges[p[k]], isOutline)

C14_Witness ==
    /\ epc = "done"
    /\ expr.fn = "generateDensityStepExpression(fill)"
    /\ Len(cfg.densityColors.ranges) = 2
    /\ cfg.densityColors.ranges[1].threshold = 300
    /\ cfg.densityColors.ranges[2].threshold = 100
    /\ cfg.densityColors.ranges[1].fillColor # cfg.densityColors.ranges[2].fillColor
    /\ Breakpoints(expr.es[1]) = <<100, 300>>
    /\ StopOut(expr.es[1], 1) = cfg.densityColors.ranges[2].fillColor

\* C15: for every list of density colour ranges, lists that repeat a
\* threshold included, the compiled step expression has strictly increasing
\* breakpoints, one per distinct threshold, each followed by the colour of
\* the first range of the input that carries that threshold.
C15_BreakpointsDeduplicated ==
    (epc = "done" /\ expr.fn \in DensityStepBuilders) =>
        LET e == expr.es[1]
            ranges == cfg.densityColors.ranges
            isOutline == expr.fn = "generateDensityStepExpression(outline)"
            bp == Breakpoints(e)
        IN  /\ \A k \in 1..(NumStops(e) - 1) : bp[k] < bp[k + 1]
            /\ {bp[k] : k \in DOMAIN bp} = {ranges[i].threshold : i \in DOMAIN ranges}
            /\ \A k \in DOMAIN bp :
                  LET first == CHOOSE i \in DOMAIN ranges :
                                  /\ ranges[i].threshold = bp[k]
                                  /\ \A j \in 1..(i - 1) : ranges[j].threshold # bp[k]
                  IN  StopOut(e, k) = RangeColor(ranges[first], isOutline)

\* The three channels of a colour "#rrggbb" or "rrggbb"
Channels(color) ==
    LET hex == IF color[1] = "#" THEN Tail(color) ELSE color IN
    << parseHexPair(hex, 0), parseHexPair(hex, 2), parseHexPair(hex, 4) >>

Abs(x) == IF x < 0 THEN -x ELSE x

\* C16 as stated: darkening "#ecda9a" yields "#b1a374" (0xda -> 0xa3).
C16_DarkenExampleAsStated ==
    (epc = "done" /\ expr.fn = "darkenColor" /\ cfg.color = Hex("e", "c", "d", "a", "9", "a")) =>
        expr.es[1].value = Hex("b", "1", "a", "3", "7", "4")

\* C16: darkening "#ecda9a" yields "#b1a474": each channel is multiplied by
\* 0.75 and rounded to the nearest integer, a half being rounded up
\* (0xec -> 0xb1, 0xda = 218 -> 163.5 -> 164 = 0xa4, 0x9a = 154 -> 115.5 ->
\* 116 = 0x74), and written as two lower-case hex digits after a "#".
C16_DarkenExample ==
    (epc = "done" /\ expr.fn = "darkenColor") =>
        LET given == Channels(cfg.color)
            result == expr.es[1].value
            dark == Channels(result)
        IN  /\ Len(result) = 7 /\ result[1] = "#"
            /\ \A i \in 1..3 :
                  /\ Abs(4 * dark[i] - 3 * given[i]) <= 2
                  /\ 4 * dark[i] - 3 * given[i] # -2
            /\ Channels(cfg.color) = <<236, 218, 154>> =>
                  result = Hex("b", "1", "a", "4", "7", "4")

C16_Witness ==
    /\ epc = "done"
    /\ expr.fn = "darkenColor"
    /\ cfg.color = Hex("e", "c", "d", "a", "9", "a")
    /\ Channels(expr.es[1].value) = <<177, 164, 116>>

\* ------------------------------------------------------------------------
\* Properties of the places colours (checked under SpecExpr).  The colour
\* expressions are read as the renderer evaluates them for a feature that
\* has no feature state and no pop_total attribute.
\* ------------------------------------------------------------------------
RECURSIVE ValueWithoutState(_)
\* Value of a numeric expression: Undefined is null.  ["feature-state", ..]
\* is null, coalesce gives its first argument that is not null, and the
\* density computed from the attributes is 0 (pop_total reads as 0)
ValueWithoutState(e) ==
    IF e.op = "feature-state" THEN Undefined
    ELSE IF e.op = "coalesce"
         THEN IF ValueWithoutState(e.args[1]) # Undefined THEN ValueWithoutState(e.args[1])
              ELSE Some(e.args[2])
    ELSE Some(0)

StepFailed == <<"error">>

\* Output of a step expression: an error on a null input, the default below
\* the first breakpoint, else the output of the last breakpoint <= the input
StepOutput(e) ==
    LET x == ValueWithoutState(e.input)
        reached == {k \in 1..NumStops(e) : x # Undefined /\ e.stops[2 * k - 1] <= x[1]}
    IN  IF x = Undefined THEN StepFailed
        ELSE IF reached = {} THEN e.default
        ELSE StopOut(e, CHOOSE k \in reached : \A j \in reached : j <= k)

\* Colour of a places colour expression: the condition of its case is false
\* (the state is null), so a case gives its fallback
ColorWithoutState(e) == IF e.op = "case" THEN e.else ELSE StepOutput(e)

PlacesPointLayerIds ==
    {"places-points-lowzoom", "places-points-lowzoom-alt1", "places-points-lowzoom-alt2"}

C18_DeepestFirst ==
    (pc = "called" /\ out.factory = "bathymetry" /\ Truthy(theme["bathymetry.enabled"])) =>
        LET depth(i) == sourceLayerDepths[out.layers[i].sourceLayer] IN
        /\ Len(out.layers) = 12
        /\ {out.layers[i].sourceLayer : i \in DOMAIN out.layers}
              = {bathymetrySourceLayers[i] : i \in DOMAIN bathymetrySourceLayers}
        /\ out.layers[1].sourceLayer = "ne_10m_bathymetry_A_10000"
        /\ out.layers[Len(out.layers)].sourceLayer = "ne_10m_bathymetry_L_0"
        /\ \A i, j \in DOMAIN out.layers : i < j => depth(i) > depth(j)

\* The line layers that draw roads, tunnels, paths and railways
RoadLineLayerIds ==
    {"road-world", "road-world-mid", "road-tunnel-casing", "road-tunnel", "road-casing",
     "paths", "road-bridge", "railway", "road-casing-us", "road-us", "road-alley",
     "road-parking-aisle", "road-other", "road-bridge-us"}

BridgeLayerIds == {"road-bridge", "road-bridge-us"}

\* Indices of the layers of the style with an id of ids, in the group g or in any group
IndicesOf(ids, g) ==
    {i \in DOMAIN style.layers :
        /\ style.layers[i].id \in ids
        /\ g = "any" \/ style.layers[i].factory = g}

\* In group g every layer with an id of ids comes before the bridge layer of g
BeforeBridge(ids, g) ==
    \A b \in IndicesOf(BridgeLayerIds, g), i \in IndicesOf(ids, g) : i < b

\* No road, path or railway line layer follows the last bridge layer of the style
NothingAfterLastBridge ==
    \E b \in IndicesOf(BridgeLayerIds, "any") :
        \A i \in IndicesOf(RoadLineLayerIds, "any") : i <= b

\* C19 as stated: in roads(region) and in roads-overlay(region) the bridge
\* layer comes after every other road, tunnel, path and railway line layer
\* of its group, and no such layer follows the last bridge layer.
C19_BridgesLastAsStated ==
    pc = "built" =>
        /\ BeforeBridge(RoadLineLayerIds \ BridgeLayerIds, "roads-region")
        /\ BeforeBridge(RoadLineLayerIds \ BridgeLayerIds, "roads-overlay-region")
        /\ NothingAfterLastBridge

\* C19: in roads-overlay(region) the bridge layer road-bridge-us comes after
\* every other road line layer of the group; in roads(region) the bridge
\* layer road-bridge comes after the tunnel, casing and path layers and is
\* followed by the railway layer; in the full output no road, path or
\* railway line layer follows the last bridge layer, road-bridge-us.
C19_BridgesLast ==
    pc = "built" =>
        /\ BeforeBridge(RoadLineLayerIds \ BridgeLayerIds, "roads-overlay-region")
        /\ BeforeBridge(RoadLineLayerIds \ (BridgeLayerIds \cup {"railway"}), "roads-region")
        /\ IndexOf(style.layers, "road-bridge") < IndexOf(style.layers, "railway")
        /\ IndexOf(style.layers, "railway") < IndexOf(style.layers, "road-bridge-us")
        /\ NothingAfterLastBridge

C19_Witness ==
    /\ pc = "built"
    /\ IndicesOf({"road-bridge"}, "roads-region") # {}
    /\ IndicesOf({"railway"}, "roads-region") # {}
    /\ IndicesOf({"road-bridge-us"}, "roads-overlay-region") # {}
    /\ IndicesOf({"road-other", "road-us"}, "roads-overlay-region") # {}
    /\ style.layers[Len(style.layers)].id # "road-bridge-us"

\* ------------------------------------------------------------------------
\* Properties of the boundary filters (checked under SpecExpr).  A filter is
\* read as the renderer evaluates it: ["get", p] of an absent property is
\* null, and null equals no number.
\* ------------------------------------------------------------------------
RECURSIVE Holds(_, _)
Holds(f, feature) ==
    IF f.op = "all" THEN \A i \in DOMAIN f.args : Holds(f.args[i], feature)
    ELSE IF f.op = "any" THEN \E i \in DOMAIN f.args : Holds(f.args[i], feature)
    ELSE IF f.op = "!" THEN ~Holds(f.arg, feature)
    ELSE IF f.op = "has" THEN feature[f.get] # Undefined
    ELSE IF f.op = "match" THEN feature[f.get] # Undefined /\ feature[f.get][1] \in f.values
    ELSE LET v == feature[f.get]
             equal == v # Undefined /\ v[1] = f.value
         IN  IF f.op = "==" THEN equal ELSE ~equal

\* C20: for a feature with admin_level 2 exactly one of the country-boundary
\* and the maritime-boundary filter holds, the country filter iff maritime is
\* not 1 (also when maritime is absent); for a feature of any other admin
\* level, or without one, neither filter holds.
C20_CountryMaritimeComplement ==
    (epc = "done" /\ expr.fn = "filters") =>
        LET country == Holds(expr.es[1], cfg)
            maritime == Holds(expr.es[2], cfg)
        IN  IF cfg.admin_level = Some(2)
            THEN /\ country # maritime
                 /\ country <=> cfg.maritime # Some(1)
            ELSE ~country /\ ~maritime

C20_Witness ==
    /\ epc = "done"
    /\ expr.fn = "filters"
    /\ cfg.admin_level = Some(2)
    /\ cfg.maritime = Undefined
    /\ Holds(expr.es[1], cfg)
    /\ ~Holds(expr.es[2], cfg)

\* ------------------------------------------------------------------------
\* Properties of the name conditions of the label layers (checked under
\* SpecExpr).  The name test of a layer is made of the conditions of its
\* filter that read name or name:en.
\* ------------------------------------------------------------------------
RECURSIVE ReadsName(_)
ReadsName(f) ==
    IF f.op \in {"all", "any"} THEN \E i \in DOMAIN f.args : ReadsName(f.args[i])
    ELSE IF f.op = "!" THEN ReadsName(f.arg)
    ELSE f.get \in {"name", "name:en"}

NameTestOf(layer) == All(SelectSeq(layer.filter.args, ReadsName))

HasEitherName(feature) == feature["name"] # Undefined \/ feature["name:en"] # Undefined

\* The label layers whose name test disagrees with "has name or name:en" on the feature
NameTestDisagrees(feature) ==
    {i \in DOMAIN expr.es : Holds(NameTestOf(expr.es[i]), feature) # HasEitherName(feature)}

\* C21: every label layer that requires a named feature (road, water,
\* waterway, place and POI labels) passes a feature on its name test exactly
\* when the feature has name or name:en; a feature with only name:en passes
\* the name test of every such layer.
C21_NameTestEitherName ==
    (epc = "done" /\ expr.fn = "labelFilters") => NameTestDisagrees(cfg) = {}

\* ------------------------------------------------------------------------
\* Properties of the overlay road filters (checked under SpecExpr)
\* ------------------------------------------------------------------------
\* The overlay road layers whose filter passes the feature
MatchingLayers(feature) == {expr.es[i].id : i \in {j \in DOMAIN expr.es : Holds(expr.es[j].filter, feature)}}

PlainRoad(feature) ==
    /\ ~Holds(filters.tunnel, feature)
    /\ ~Holds(filters.bridge, feature)
    /\ ~Holds(filters.path, feature)
    /\ ~Holds(filters.railway, feature)

\* C30: every transportation feature that is neither tunnel nor bridge and
\* is not a path or a railway is passed by exactly one of the filters of
\* road-us, road-alley, road-parking-aisle and road-other, for every
\* combination of class and service.
C30_ExactlyOneRoadLayer ==
    (epc = "done" /\ expr.fn = "overlayRoadFilters" /\ PlainRoad(cfg)) =>
        Cardinality(MatchingLayers(cfg)) = 1

\* ------------------------------------------------------------------------
\* Properties of the places part of the style document (checked under Spec)
\* ------------------------------------------------------------------------
PlacesSourceIds == {"places-source", "places-low-source"}

StyleLayerIds == {style.layers[i].id : i \in DOMAIN style.layers}

PlacesLayersOfStyle == {i \in DOMAIN style.layers : style.layers[i].source \in PlacesSourceIds}

\* C22: the style document built from a theme with places.enabled true holds
\* the places sources and the places layers (places-fill, places-outline and
\* the low-zoom point and label layers); the document of a theme with places
\* disabled holds none of them.
C22_PlacesInStyle ==
    pc = "built" =>
        IF theme["places.enabled"] = "true"
        THEN /\ PlacesSourceIds \cap style.sources # {}
             /\ {createPlacesLayers(theme)[i].id : i \in DOMAIN createPlacesLayers(theme)}
                    \subseteq StyleLayerIds
        ELSE /\ PlacesSourceIds \cap style.sources = {}
             /\ PlacesLayersOfStyle = {}

\* ------------------------------------------------------------------------
\* Properties of the attribute cache (checked under SpecCache)
\* ------------------------------------------------------------------------
\* C23: loaded attribute data is cached: over any interleaving of
\* loadPlacesAttributesByState and loadPlacesAttributesByStates calls with
\* no clearAttributeCache in between, at most one successful fetch is made
\* per state, also when two calls for the same uncached state overlap and
\* when the same state is given once as "1" and once as "01".
C23_AtMostOneFetchPerState ==
    \A s \in PaddedStatefps : fetched[s] <= 1

\* ------------------------------------------------------------------------
\* Properties of the places interactivity (checked under SpecMap)
\* ------------------------------------------------------------------------
Called == init.at # "none"

StepsAt(name) == {i \in DOMAIN init.steps : init.steps[i] = name}

InitLoadsReturned == init.loads # {} /\ \A i \in init.loads : loads[i].at = "returned"

\* Every GEOID of the loaded data has its feature state set, those for
\* which setFeatureState throws aside
InitFeatureStatesUpdated ==
    \A g \in attributeDataOf(loads, init.loads) \ map.rejects : map.featureState[g] >= 1

InitStoppedEarly ==
    \/ init.at \in {"no-source", "no-layers", "no-states", "thrown"}
    \/ \E i \in init.loads : loads[i].at = "thrown"

\* C27: initializePlacesInteractivity keeps the documented order: the click
\* handler is registered only after the data of all requested states has
\* loaded and the feature states have been updated; onInitComplete is called
\* at most once and only after all of these steps; with the places source
\* missing, no places layer present, an empty state list or a failed load
\* neither is the click handler registered nor onInitComplete called.
C27_InitOrder ==
    /\ map.clickHandlers > 0 =>
          /\ Called /\ InitLoadsReturned /\ InitFeatureStatesUpdated
          /\ \A c \in StepsAt("setupPlacesClickHandler") :
                /\ \E l \in StepsAt("loadPlacesAttributesByStates") : l < c
                /\ \E u \in StepsAt("updateMapFeatureStates") : u < c
    /\ Called =>
          /\ init.completeCalls <= 1
          /\ Cardinality(StepsAt("onInitComplete")) = init.completeCalls
          /\ \A o \in StepsAt("onInitComplete") :
                /\ o = Len(init.steps)
                /\ StepsAt("setupPlacesClickHandler") # {}
                /\ map.clickHandlers > 0
          /\ InitStoppedEarly =>
                /\ map.clickHandlers = 0
                /\ init.completeCalls = 0
                /\ StepsAt("setupPlacesClickHandler") = {}

C27_Witness ==
    /\ Called
    /\ init.at = "done"
    /\ Cardinality(init.loads) = 2
    /\ map.clickHandlers = 1
    /\ init.completeCalls = 1
    /\ map.featureState["0100124"] >= 1

\* ------------------------------------------------------------------------
\* Properties of updateMapFeatureStates (checked under SpecMapFair)
\* ------------------------------------------------------------------------
\* No GEOID has been set more often than updateMapFeatureStates was called with it
NeverSetUnasked == \A g \in GEOIDs : map.featureState[g] <= map.asked[g]

\* Every GEOID that setFeatureState accepts has been set once per call that carried it
AllSetOnce == \A g \in GEOIDs \ map.rejects : map.featureState[g] = map.asked[g]

\* C28: after a call of updateMapFeatureStates every GEOID of the data
\* eventually has its feature state set exactly once, at once when the
\* source exists at the time of the call and otherwise after the load event
\* of the map, whatever the state of the map at the time of the call; no
\* feature state is written before, and a GEOID that fails does not keep the
\* others from being set.
C28_EventuallySetOnce == []NeverSetUnasked /\ <>[]AllSetOnce

\* ------------------------------------------------------------------------
\* Properties of the fill opacity of places-fill (checked under SpecExpr).
\* The expression is read as the renderer evaluates it, on fractions
\* <<numerator, denominator>>: a case on the presence of the feature state,
\* linear interpolation between two stops, the first output below the first
\* stop and the last output above the last.
\* ------------------------------------------------------------------------
RECURSIVE Gcd(_, _)
Gcd(a, b) == IF b = 0 THEN a ELSE Gcd(b, a % b)

Frac(n, d) == IF n = 0 THEN <<0, 1>> ELSE <<n \div Gcd(Abs(n), d), d \div Gcd(Abs(n), d)>>

FracAdd(p, q) == Frac(p[1] * q[2] + q[1] * p[2], p[2] * q[2])

FracMul(p, q) == Frac(p[1] * q[1], p[2] * q[2])

FracLe(p, q) == p[1] * q[2] <= q[1] * p[2]

\* Linear interpolation at x over the stops xs[k] -> vs[k]
Lerp(xs, vs, x) ==
    LET n == Len(xs)
    IN  IF x <= xs[1] THEN vs[1]
        ELSE IF x >= xs[n] THEN vs[n]
        ELSE LET k == CHOOSE j \in 1..(n - 1) : xs[j] <= x /\ x < xs[j + 1]
                 t == Frac(x - xs[k], xs[k + 1] - xs[k])
             IN  FracAdd(vs[k], FracMul(t, FracAdd(vs[k + 1], FracMul(<<-1, 1>>, vs[k]))))

RECURSIVE FeatureNumber(_, _)
\* Value of the zoom-free expression e for a feature whose pop_total state is
\* popTotal (Undefined without state); its interpolations are over pop_total
FeatureNumber(e, popTotal) ==
    IF e.op = "number" THEN <<e.value, 1>>
    ELSE IF e.op = "*"
    THEN FracMul(FeatureNumber(e.args[1], popTotal), FeatureNumber(e.args[2], popTotal))
    ELSE IF e.op = "+"
    THEN FracAdd(FeatureNumber(e.args[1], popTotal), FeatureNumber(e.args[2], popTotal))
    ELSE IF e.op = "case"
    THEN FeatureNumber(IF popTotal # Undefined THEN e.then ELSE e.else, popTotal)
    ELSE Lerp([k \in 1..(Len(e.stops) \div 2) |-> e.stops[2 * k - 1]],
              [k \in 1..(Len(e.stops) \div 2) |-> FeatureNumber(e.stops[2 * k], popTotal)],
              popTotal[1])

\* Value of the interpolation over zoom e at zoom (hundredths) for a feature
\* whose pop_total state is popTotal
NumberAt(e, zoom, popTotal) ==
    Lerp([k \in 1..(Len(e.stops) \div 2) |-> e.stops[2 * k - 1]],
         [k \in 1..(Len(e.stops) \div 2) |-> FeatureNumber(e.stops[2 * k], popTotal)],
         zoom)

\* Zooms from 6.5 up, in hundredths
ZoomsFrom650 == {650, 700, 975, 1300, 1301, 1800, 2200}

\* pop_total states with the boost the claim gives them, in hundredths: the
\* table value at a breakpoint, the value on the line between two breakpoints
BoostTable ==
    { <<0, <<0, 1>> >>, <<5000, <<5, 2>> >>, <<10000, <<5, 1>> >>, <<30000, <<15, 2>> >>,
      <<50000, <<10, 1>> >>, <<75000, <<25, 2>> >>, <<100000, <<15, 1>> >>,
      <<300000, <<35, 2>> >>, <<500000, <<20, 1>> >> }

PopTotals == {Some(b[1]) : b \in BoostTable} \cup {Undefined, Some(750000), Some(2000000)}

ThemeFillOpacity == Coalesce(cfg.fill.opacity, Some(35))[1]

IsBuildingLayer(l) == l.sourceLayer = "building"

NotBuildingLayer(l) == ~IsBuildingLayer(l)

\* The layers of the same theme with buildings switched on
LayersWithBuildings == createAllLayers([theme EXCEPT !["buildings.enabled"] = "true"])

\* C26: with buildings.enabled false the output of createAllLayers has no
\* layer of source-layer "building" (neither building nor building-us), and
\* every other layer is there as with buildings on, in the same relative order.
C26_BuildingsOffFrame ==
    (pc = "built" /\ theme["buildings.enabled"] = "false") =>
        /\ \A i \in DOMAIN style.layers : NotBuildingLayer(style.layers[i])
        /\ ~HasLayer(style.layers, "building")
        /\ ~HasLayer(style.layers, "building-us")
        /\ style.layers = SelectSeq(LayersWithBuildings, NotBuildingLayer)

C26_Witness ==
    /\ pc = "built"
    /\ theme["buildings.enabled"] = "false"
    /\ HasLayer(LayersWithBuildings, "building")
    /\ HasLayer(LayersWithBuildings, "building-us")
    /\ Len(style.layers) = Len(LayersWithBuildings) - 2
    /\ HasLayer(style.layers, "road-casing-us")

\* ------------------------------------------------------------------------
\* Properties of the sources of the style document (checked under Spec)
\* ------------------------------------------------------------------------
\* The sources the layers of the built style name
NamedSources == {style.layers[i].source : i \in DOMAIN style.layers} \ {NoSource}

\* C29: every layer of the document built by createBasemapStyle that names a
\* source names a key of the document's sources map, for every combination
\* of the theme's toggles.
C29_LayerSourcesDeclared ==
    pc = "built" => NamedSources \subseteq style.sources

C29_Witness ==
    /\ pc = "built"
    /\ theme["aeroway.enabled"] = "true"
    /\ theme["bathymetry.enabled"] # "true"
    /\ {"aeroway-world", "world_labels", "us_high", "poi_us"} \subseteq NamedSources
    /\ "ne-bathy" \notin style.sources
    /\ NamedSources \subseteq style.sources

====
